---- MODULE Spec2Model ----
(***************************************************************************)
(* Meraki job board: the job, application, matching, sign-up and course    *)
(* handlers as a state machine over the tables they read and write.        *)
(***************************************************************************)
EXTENDS Integers, Sequences, FiniteSets, TLC

VARIABLES
    jobPosts,           \* jobs_jobpost: job id -> row
    applicantProfiles,  \* applicants_applicantprofile (+ user.profile.location): applicant id -> row
    applications,       \* jobs_application: sequence of rows
    applyReq,           \* in-flight apply requests: request id -> position and response
    matchScores,        \* matching_matchscore: sequence of rows
    ret,                \* the last MatchingService call: function, arguments, outcome
    users,              \* accounts_user: sequence of rows, the index is the primary key
    profiles,           \* accounts_profile: sequence of rows
    companies,          \* companies_company: sequence of rows
    signupReq,          \* sign-up requests: request id -> position and locals
    signalsConnected,   \* whether the post_save receivers of accounts.signals are registered
    recResp,            \* recommendation page requests: request id -> what the view did
    courses,            \* courses_course: course id -> row
    lessons,            \* courses_lesson: lesson id -> row
    quizzes,            \* courses_quiz: quiz id -> row
    enrollments,        \* courses_enrollment: sequence of rows, the index is the primary key
    lessonProgress,     \* courses_lessonprogress: set of rows
    quizAttempts,       \* courses_quizattempt: sequence of rows
    certificates,       \* courses_certificate: sequence of rows
    courseReq,          \* in-flight enroll requests: request id -> position and response
    courseResp,         \* the last response of the other course views
    jobResp,            \* the last response of the job management views
    cache               \* django cache: (job, applicant) -> the MatchScore object under the
                        \* key match_score_<job>_<applicant>, NoRow when the key is missing

vars == <<jobPosts, applicantProfiles, applications, applyReq, matchScores, ret,
          users, profiles, companies, signupReq, signalsConnected, recResp,
          courses, lessons, quizzes, enrollments, lessonProgress, quizAttempts,
          certificates, courseReq, courseResp, jobResp, cache>>

(***************************************************************************)
(* Bounds of the model.                                                    *)
(***************************************************************************)
NumJobs == 2
NumApplicants == 1
NumSkills == 2
MaxYears == 6
MaxLocLen == 2
NumRequests == 2
NumSignups == 2
NumCourses == 1
NumLessons == 1
NumQuizzes == 1
MaxAttempts == 2
MaxJobPosts == 2

Jobs == 1..NumJobs
Applicants == 1..NumApplicants
Skills == 1..NumSkills
Requests == 1..NumRequests
Signups == 1..NumSignups
Courses == 1..NumCourses
Lessons == 1..NumLessons
Quizzes == 1..NumQuizzes

\* years_experience is a plain IntegerField: negative and very large values are storable
Years == (-1..MaxYears) \cup {100, 101}

\* location strings: sequences of characters, upper and lower case
Alphabet == {"A", "a", "b"}
Locations == UNION {[1..n -> Alphabet] : n \in 0..MaxLocLen}

ExperienceLevels == {"entry", "mid", "senior", "lead"}
JobStatuses == {"draft", "pending", "approved", "rejected", "closed"}

(***************************************************************************)
(* Python numbers.  A value is [kind, int, hi, lo] and stands for          *)
(* int + hi * 10^-8 + lo * 10^-16 with 0 <= hi, lo < 10^8 (int carries the *)
(* sign), so that every decimal.Decimal the service builds from a float    *)
(* repr (16 decimals) is held exactly.  kind tells Decimal from float and  *)
(* int operands; kind "TypeError" is a raised TypeError.                   *)
(***************************************************************************)
Limb == 100000000

Num(k, i, h, l) == [kind |-> k, int |-> i, hi |-> h, lo |-> l]
Dec(i, h, l) == Num("Decimal", i, h, l)
TypeError == Num("TypeError", 0, 0, 0)

\* carry / borrow between the limbs
Normalize(k, i, h, l) ==
    LET l2 == l % Limb
        h1 == h + ((l - l2) \div Limb)
        h2 == h1 % Limb
        i2 == i + ((h1 - h2) \div Limb)
    IN  Num(k, i2, h2, l2)

NumLess(x, y) ==
    \/ x.int < y.int
    \/ x.int = y.int /\ x.hi < y.hi
    \/ x.int = y.int /\ x.hi = y.hi /\ x.lo < y.lo

NumLeq(x, y) == ~NumLess(y, x)

\* Decimal.__sub__
DecSub(x, y) == Normalize("Decimal", x.int - y.int, x.hi - y.hi, x.lo - y.lo)

\* max(a, b) of two Decimals (Python returns the first when they are equal)
DecMax(x, y) == IF NumLess(x, y) THEN y ELSE x

\* Decimal(str(k / n)) for 0 <= k <= n: the float quotient's repr, which for the
\* denominators of the model is the quotient cut to 16 decimals
DecimalOfQuotient(k, n) ==
    LET q1 == (k * Limb) \div n
        r1 == (k * Limb) % n
        q2 == (r1 * Limb) \div n
    IN  Normalize("Decimal", 0, q1, q2)

\* the error, in units of 10^-16, of the float product diff * 0.2 against diff / 5
FloatErrTimesFifth(diff) ==
    CASE diff = 3 -> 1
      [] diff = 6 -> 2
      [] diff = 7 -> 1
      [] OTHER -> 0

\* Decimal(str(diff * 0.2)) for diff >= 0
DecimalOfFifths(diff) ==
    Normalize("Decimal", 0, diff * (Limb \div 5), FloatErrTimesFifth(diff))


(***************************************************************************)
(* Strings: str.lower() and the substring test `a in b`.                   *)
(***************************************************************************)
LowerChar(c) == IF c = "A" THEN "a" ELSE c

Lower(s) == [i \in 1..Len(s) |-> LowerChar(s[i])]

\* Python `a in b` for strings: a occurs in b as a contiguous run
IsSubstring(a, b) ==
    \E i \in 0..(Len(b) - Len(a)) :
        \A k \in 1..Len(a) : b[i + k] = a[k]

(***************************************************************************)
(* MatchingService: the four sub-scores.  job and applicant are rows.      *)
(***************************************************************************)
NeutralSkills == Dec(0, 50000000, 0)
Zero == Dec(0, 0, 0)
One == Dec(1, 0, 0)
OverExperienced == Dec(0, 90000000, 0)
NeutralLocation == Dec(0, 50000000, 0)
OtherLocation == Dec(0, 30000000, 0)
NeutralEducation == Dec(0, 70000000, 0)

\* variant: the ratio is taken over the applicant's skills
SkillsScoreOverCandidate(job, applicant) ==
    IF job.skills_required = {} THEN NeutralSkills
    ELSE IF applicant.skills = {} THEN Zero
    ELSE DecimalOfQuotient(Cardinality(job.skills_required \cap applicant.skills),
                           Cardinality(applicant.skills))

CalculateSkillsScore(job, applicant) ==
    LET job_skills == job.skills_required
        applicant_skills == applicant.skills
        matching_skills == job_skills \cap applicant_skills
    IN  IF job_skills = {} THEN NeutralSkills
        ELSE IF applicant_skills = {} THEN Zero
        ELSE DecimalOfQuotient(Cardinality(matching_skills), Cardinality(job_skills))

\* experience_mapping.get(level, (0, 100))
ExperienceRange(level) ==
    CASE level = "entry" -> <<0, 2>>
      [] level = "mid" -> <<2, 5>>
      [] level = "senior" -> <<5, 100>>
      [] OTHER -> <<0, 100>>

\* variant: too much experience is penalised like too little
ExperienceScoreSymmetric(job, applicant) ==
    LET required_range == ExperienceRange(job.experience_level)
        applicant_exp == applicant.years_experience
    IN  IF required_range[1] <= applicant_exp /\ applicant_exp <= required_range[2]
        THEN One
        ELSE IF applicant_exp < required_range[1]
        THEN DecMax(Zero, DecSub(One, DecimalOfFifths(required_range[1] - applicant_exp)))
        ELSE DecMax(Zero, DecSub(One, DecimalOfFifths(applicant_exp - required_range[2])))

CalculateExperienceScore(job, applicant) ==
    LET required_range == ExperienceRange(job.experience_level)
        applicant_exp == applicant.years_experience
    IN  IF required_range[1] <= applicant_exp /\ applicant_exp <= required_range[2]
        THEN One
        ELSE IF applicant_exp < required_range[1]
        THEN DecMax(Zero, DecSub(One, DecimalOfFifths(required_range[1] - applicant_exp)))
        ELSE OverExperienced

\* variant: the comparison keeps the case of the two strings
LocationScoreCaseSensitive(job, applicant) ==
    IF job.location = <<>> \/ applicant.location = <<>>
    THEN NeutralLocation
    ELSE IF \/ IsSubstring(job.location, applicant.location)
            \/ IsSubstring(applicant.location, job.location)
         THEN One
         ELSE OtherLocation

CalculateLocationScore(job, applicant) ==
    IF job.location = <<>> \/ applicant.location = <<>>
    THEN NeutralLocation
    ELSE LET job_location == Lower(job.location)
             applicant_location == Lower(applicant.location)
         IN  IF \/ IsSubstring(job_location, applicant_location)
                \/ IsSubstring(applicant_location, job_location)
             THEN One
             ELSE OtherLocation

CalculateEducationScore(job, applicant) == NeutralEducation

(***************************************************************************)
(* Arithmetic of calculate_match_score.  Python's Decimal refuses a float  *)
(* operand: Decimal.__mul__ and float.__rmul__ both return NotImplemented  *)
(* and the product raises TypeError.  A raised error ends the evaluation,  *)
(* which the operators model by handing the error on.                      *)
(***************************************************************************)
\* the service multiplies by at most 100, so half limbs keep every product small
Half == Limb \div 10000

\* one limb times a small int: <<limb of the product, carry>>
LimbMul(v, n) ==
    LET t == (v % Half) * n
        u == (v \div Half) * n + (t \div Half)
    IN  <<(u % Half) * Half + (t % Half), u \div Half>>

\* Decimal * int
DecTimesInt(d, n) ==
    LET l == LimbMul(d.lo, n)
        h == LimbMul(d.hi, n)
    IN  Normalize("Decimal", d.int * n + h[2], h[1] + l[2], l[1])

PyMul(x, y) ==
    CASE x.kind = "TypeError" -> x
      [] x.kind # "TypeError" /\ y.kind = "TypeError" -> y
      [] x.kind = "Decimal" /\ y.kind = "int" -> DecTimesInt(x, y.int)
      [] x.kind = "Decimal" /\ y.kind = "float" -> TypeError
      [] x.kind = "float" /\ y.kind = "Decimal" -> TypeError

PyAdd(x, y) ==
    IF x.kind = "TypeError" THEN x
    ELSE IF y.kind = "TypeError" THEN y
    ELSE IF x.kind = y.kind THEN Normalize(x.kind, x.int + y.int, x.hi + y.hi, x.lo + y.lo)
    ELSE TypeError

\* weights = {'skills': 0.4, 'experience': 0.3, 'location': 0.2, 'education': 0.1}
Weights ==
    [skills |-> Num("float", 0, 40000000, 0),
     experience |-> Num("float", 0, 30000000, 0),
     location |-> Num("float", 0, 20000000, 0),
     education |-> Num("float", 0, 10000000, 0)]

Hundred == Num("int", 100, 0, 0)

\* total_score = (s * w_s + e * w_e + l * w_l + d * w_d) * 100
TotalScore(skills_score, experience_score, location_score, education_score) ==
    PyMul(PyAdd(PyAdd(PyAdd(PyMul(skills_score, Weights.skills),
                            PyMul(experience_score, Weights.experience)),
                      PyMul(location_score, Weights.location)),
                PyMul(education_score, Weights.education)),
          Hundred)

\* DecimalField(max_digits=5, decimal_places=2): the stored value is the value
\* rounded to two decimals, half to even
Quantize2(d) ==
    LET unit == Limb \div 100
        c == d.hi \div unit
        rem == d.hi % unit
        up == \/ 2 * rem > unit
              \/ 2 * rem = unit /\ d.lo > 0
              \/ 2 * rem = unit /\ d.lo = 0 /\ c % 2 = 1
    IN  Normalize("Decimal", d.int, (IF up THEN c + 1 ELSE c) * unit, 0)

(***************************************************************************)
(* The MatchScore table and calculate_match_score.                         *)
(***************************************************************************)
NoRow ==
    [job_post |-> 0, applicant |-> 0, skills_score |-> Zero, experience_score |-> Zero,
     location_score |-> Zero, education_score |-> Zero, total_score |-> Zero]

RowsOf(rows, j, a) == {i \in 1..Len(rows) : rows[i].job_post = j /\ rows[i].applicant = a}

\* MatchScore.objects.update_or_create(job_post=, applicant=, defaults=): the row of
\* the pair is overwritten when there is one, and inserted otherwise (the lookup,
\* the row lock and unique_together make this one step against other requests)
UpdateOrCreate(rows, row) ==
    LET found == RowsOf(rows, row.job_post, row.applicant)
    IN  IF found = {}
        THEN Append(rows, row)
        ELSE LET i == CHOOSE k \in found : \A m \in found : k <= m
             IN  [rows EXCEPT ![i] = row]

\* MatchingService.calculate_match_score(job_post, applicant) against the table
\* `rows`: [outcome, rows, row], outcome "return" with the row returned, or the
\* exception raised
CalculateMatchScore(rows, j, a, job, applicant) ==
    LET skills_score == CalculateSkillsScore(job, applicant)
        experience_score == CalculateExperienceScore(job, applicant)
        location_score == CalculateLocationScore(job, applicant)
        education_score == CalculateEducationScore(job, applicant)
        total_score == TotalScore(skills_score, experience_score, location_score,
                                  education_score)
    IN  IF total_score.kind = "TypeError"
        THEN [outcome |-> "TypeError", rows |-> rows, row |-> NoRow]
        ELSE LET row == [job_post |-> j, applicant |-> a,
                         skills_score |-> Quantize2(PyMul(skills_score, Hundred)),
                         experience_score |-> Quantize2(PyMul(experience_score, Hundred)),
                         location_score |-> Quantize2(PyMul(location_score, Hundred)),
                         education_score |-> Quantize2(PyMul(education_score, Hundred)),
                         total_score |-> Quantize2(total_score)]
             IN  [outcome |-> "return", rows |-> UpdateOrCreate(rows, row), row |-> row]

NoRet == [fn |-> "none", job |-> 0, applicant |-> 0, outcome |-> "none",
          value |-> Zero, row |-> NoRow]

Returned(fn, j, a, v) ==
    [fn |-> fn, job |-> j, applicant |-> a, outcome |-> "return", value |-> v, row |-> NoRow]

dataVars == <<jobPosts, applicantProfiles>>
applyVars == <<applications, applyReq>>
matchVars == <<matchScores, ret, cache>>

\* what the actions of one area leave alone
signupVars == <<users, profiles, companies, signupReq, signalsConnected>>
catalogVars == <<courses, lessons, quizzes>>
courseVars == <<catalogVars, enrollments, lessonProgress, quizAttempts, certificates,
                courseReq, courseResp>>
outsideMatch == <<dataVars, applyVars, signupVars, recResp, courseVars, jobResp, cache>>
outsideApply == <<jobPosts, applicantProfiles, ret, signupVars, recResp, courseVars, jobResp,
                 cache>>
outsideSignup == <<jobPosts, applyVars, matchVars, signalsConnected, recResp, courseVars,
                  jobResp>>
outsideRecommend == <<dataVars, applyVars, matchVars, signupVars, courseVars, jobResp>>
outsideCourse == <<dataVars, applyVars, matchVars, signupVars, recResp, catalogVars, jobResp>>
outsideWorkflow == <<applicantProfiles, applyReq, matchVars, signupVars, recResp, courseVars>>

CallSkillsScore(j, a) ==
    /\ ret' = Returned("_calculate_skills_score", j, a,
                       CalculateSkillsScore(jobPosts[j], applicantProfiles[a]))
    /\ UNCHANGED <<outsideMatch, matchScores>>

CallExperienceScore(j, a) ==
    /\ ret' = Returned("_calculate_experience_score", j, a,
                       CalculateExperienceScore(jobPosts[j], applicantProfiles[a]))
    /\ UNCHANGED <<outsideMatch, matchScores>>

CallLocationScore(j, a) ==
    /\ ret' = Returned("_calculate_location_score", j, a,
                       CalculateLocationScore(jobPosts[j], applicantProfiles[a]))
    /\ UNCHANGED <<outsideMatch, matchScores>>

CallEducationScore(j, a) ==
    /\ ret' = Returned("_calculate_education_score", j, a,
                       CalculateEducationScore(jobPosts[j], applicantProfiles[a]))
    /\ UNCHANGED <<outsideMatch, matchScores>>

CallCalculateMatchScore(j, a) ==
    LET r == CalculateMatchScore(matchScores, j, a, jobPosts[j], applicantProfiles[a])
    IN  /\ matchScores' = r.rows
        /\ ret' = [fn |-> "calculate_match_score", job |-> j, applicant |-> a,
                   outcome |-> r.outcome, value |-> r.row.total_score, row |-> r.row]
        /\ UNCHANGED outsideMatch

(***************************************************************************)
(* Applying to a job: ApplyJobView.post and ApplyJobAPIView.post.          *)
(* applications maps a (job, applicant) pair to the rows of the pair.      *)
(***************************************************************************)
Pairs == Jobs \X Applicants

NewApplication == [status |-> "applied", match_score |-> Zero]

\* variant: the table has no unique constraint on the pair
ApplicationCreateNoUnique(rows, j, a) ==
    [outcome |-> "created",
     rows |-> [rows EXCEPT ![<<j, a>>] = Append(@, [status |-> "applied", match_score |-> Zero])]]

\* Application.objects.create(job_post=, applicant=) under
\* Meta.unique_together = ['job_post', 'applicant']: the insert is refused with
\* IntegrityError when the pair has a row
ApplicationCreate(rows, j, a) ==
    IF rows[<<j, a>>] # <<>>
    THEN [outcome |-> "IntegrityError", rows |-> rows]
    ELSE [outcome |-> "created",
          rows |-> [rows EXCEPT ![<<j, a>>] = Append(@, NewApplication)]]

\* get_object_or_404(JobPost, ..., status='approved', is_active=True)
JobIsOpen(job) == job.status = "approved" /\ job.is_active

IdleRequest == [view |-> "none", job |-> 0, applicant |-> 0, pc |-> "idle", response |-> "none"]

Answer(view, response) ==
    [view |-> view, job |-> 0, applicant |-> 0, pc |-> "done", response |-> response]

\* ApplyJobView.post: no lookup of an earlier application; create, score, save
ApplyJobViewPost(p, j, a) ==
    /\ applyReq[p].pc = "idle"
    /\ IF ~JobIsOpen(jobPosts[j])
       THEN /\ applyReq' = [applyReq EXCEPT ![p] = Answer("ApplyJobView", "404")]
            /\ UNCHANGED <<applications, matchScores>>
       ELSE LET c == ApplicationCreate(applications, j, a)
                m == CalculateMatchScore(matchScores, j, a, jobPosts[j], applicantProfiles[a])
            IN  IF c.outcome # "created"
                THEN \* except Exception: logged, redirect back to the form
                     /\ applyReq' = [applyReq EXCEPT ![p] = Answer("ApplyJobView", "error")]
                     /\ UNCHANGED <<applications, matchScores>>
                ELSE IF m.outcome # "return"
                THEN \* the application is already stored when the scoring raises
                     /\ applications' = c.rows
                     /\ applyReq' = [applyReq EXCEPT ![p] = Answer("ApplyJobView", "error")]
                     /\ UNCHANGED matchScores
                ELSE /\ applications' =
                            [c.rows EXCEPT ![<<j, a>>] =
                                [i \in 1..Len(@) |->
                                    IF i = Len(@)
                                    THEN [@[i] EXCEPT !.match_score = m.row.total_score]
                                    ELSE @[i]]]
                     /\ matchScores' = m.rows
                     /\ applyReq' = [applyReq EXCEPT ![p] = Answer("ApplyJobView", "success")]
    /\ UNCHANGED outsideApply

\* ApplyJobAPIView.post, first half: the job lookup and the `already applied` query
ApplyJobAPIViewCheck(p, j, a) ==
    /\ applyReq[p].pc = "idle"
    /\ applyReq' = [applyReq EXCEPT ![p] =
            IF ~JobIsOpen(jobPosts[j]) THEN Answer("ApplyJobAPIView", "404")
            ELSE IF applications[<<j, a>>] # <<>> THEN Answer("ApplyJobAPIView", "already")
            ELSE [view |-> "ApplyJobAPIView", job |-> j, applicant |-> a,
                  pc |-> "checked", response |-> "none"]]
    /\ UNCHANGED <<applications, matchScores, outsideApply>>

\* ApplyJobAPIView.post, second half: the insert inside try/except
ApplyJobAPIViewCreate(p) ==
    /\ applyReq[p].pc = "checked"
    /\ LET c == ApplicationCreate(applications, applyReq[p].job, applyReq[p].applicant)
       IN  /\ applications' = c.rows
           /\ applyReq' = [applyReq EXCEPT ![p] =
                  Answer("ApplyJobAPIView",
                         IF c.outcome = "created" THEN "success" ELSE "error")]
    /\ UNCHANGED <<matchScores, outsideApply>>

\* the response is delivered; the client may send its next request
ApplyResponseSent(p) ==
    /\ applyReq[p].pc = "done"
    /\ applyReq' = [applyReq EXCEPT ![p] = IdleRequest]
    /\ UNCHANGED <<applications, matchScores, outsideApply>>

(***************************************************************************)
(* Sign-up: SignUpView with CustomSignUpForm.save, the post_save receivers *)
(* of accounts.signals and the form's own create_user_profile.             *)
(* A username is a sequence: the local part of the email, then the         *)
(* counters appended by f"{base_username}_{counter}"; the local part       *)
(* "a_1" is <<"a", 1>>, the string the loop builds from "a".               *)
(***************************************************************************)
Emails ==
    {[local |-> <<"a">>, domain |-> "x"],
     [local |-> <<"a">>, domain |-> "y"],
     [local |-> <<"a", 1>>, domain |-> "x"]}

UserTypes == {"applicant", "company"}

\* first and last name, which the company name and its slug are made of
Names == {"n"}

IdleSignup ==
    [pc |-> "idle", email |-> [local |-> <<>>, domain |-> ""], user_type |-> "",
     name |-> "", base |-> <<>>, username |-> <<>>, counter |-> 0, user |-> 0,
     attempts |-> 0, slug |-> <<>>, slug_counter |-> 0, response |-> "none",
     verification |-> "none"]

SignupAnswer(response) == [IdleSignup EXCEPT !.pc = "done", !.response = response]

\* form.save() has returned the new user: form_valid goes on to the verification email
SavedUser(r, uid) == [r EXCEPT !.pc = "email", !.user = uid]

\* User.objects.filter(username=username).exists()
UsernameExists(rows, username) == \E i \in 1..Len(rows) : rows[i].username = username

\* variant: the user table takes any username
UserInsertAnyUsername(rows, row) ==
    IF \E i \in 1..Len(rows) : rows[i].email = row.email
    THEN [outcome |-> "IntegrityError", rows |-> rows]
    ELSE [outcome |-> "created", rows |-> Append(rows, row)]

\* user.save() of a new User(AbstractUser): username is unique (AbstractUser) and
\* email is unique (email = models.EmailField(unique=True))
UserInsert(rows, row) ==
    IF \E i \in 1..Len(rows) : rows[i].email = row.email \/ rows[i].username = row.username
    THEN [outcome |-> "IntegrityError", rows |-> rows]
    ELSE [outcome |-> "created", rows |-> Append(rows, row)]

\* Profile.objects.get_or_create(user=, defaults={'phone': '', 'location': ''})
ProfileGetOrCreate(rows, uid) ==
    IF \E i \in 1..Len(rows) : rows[i].user = uid
    THEN [created |-> FALSE, rows |-> rows]
    ELSE [created |-> TRUE, rows |-> Append(rows, [user |-> uid, location |-> <<>>])]

\* ApplicantProfile.objects.get_or_create(user=, defaults={first_name, last_name})
ApplicantGetOrCreate(rows, uid) ==
    IF \E i \in 1..Len(rows) : rows[i].user = uid
    THEN rows
    ELSE Append(rows, [user |-> uid, skills |-> {}, years_experience |-> 0, location |-> <<>>])

\* the role profile is created n times over
RECURSIVE ApplicantGetOrCreateTimes(_, _, _)
ApplicantGetOrCreateTimes(rows, uid, n) ==
    IF n = 0 THEN rows ELSE ApplicantGetOrCreateTimes(ApplicantGetOrCreate(rows, uid), uid, n - 1)

\* Company.objects.filter(slug=slug).exclude(pk=self.pk).exists(), self not saved yet
SlugExists(rows, slug) == \E i \in 1..Len(rows) : rows[i].slug = slug

\* the INSERT of Company.save(): user is a OneToOneField, slug is unique
CompanyInsert(rows, row) ==
    IF \E i \in 1..Len(rows) : rows[i].user = row.user \/ rows[i].slug = row.slug
    THEN [outcome |-> "IntegrityError", rows |-> rows]
    ELSE [outcome |-> "created", rows |-> Append(rows, row)]

\* The receivers and the form hook that run for a new user, in order, against the
\* Profile table: the rows they leave and how many times the role profile is
\* asked for.
\*   create_user_related_profiles: Profile get_or_create; its create_user_profile
\*     (instance) call reaches the receiver of that name defined further down the
\*     module, not the helper imported from utils, and raises TypeError (two
\*     positional arguments missing), which its except logs
\*   create_user_profile (receiver): Profile get_or_create; create_specific_profile
\*   CustomSignUpForm.create_user_profile: Profile get_or_create; the role profile
\*     only if that created the Profile
CreationHooks(rows, uid, connected) ==
    LET a == IF connected THEN ProfileGetOrCreate(rows, uid)
             ELSE [created |-> FALSE, rows |-> rows]
        c == IF connected THEN ProfileGetOrCreate(a.rows, uid) ELSE a
        f == ProfileGetOrCreate(c.rows, uid)
    IN  [rows |-> f.rows,
         attempts |-> (IF connected THEN 1 ELSE 0) + (IF f.created THEN 1 ELSE 0)]

\* SignUpView.post: form validation (clean_email), then the start of form.save()
SignUpSubmit(p, email, user_type, name) ==
    /\ signupReq[p].pc = "idle"
    /\ signupReq' = [signupReq EXCEPT ![p] =
          IF \E i \in 1..Len(users) : users[i].email = email
          THEN SignupAnswer("invalid")
          ELSE [IdleSignup EXCEPT !.pc = "username", !.email = email,
                                  !.user_type = user_type, !.name = name,
                                  !.base = email.local, !.username = email.local,
                                  !.counter = 1]]
    /\ UNCHANGED <<users, profiles, companies, applicantProfiles, outsideSignup>>

\* one test of `while User.objects.filter(username=username).exists()`
SignUpUsernameLoop(p) ==
    /\ signupReq[p].pc = "username"
    /\ LET r == signupReq[p]
       IN  signupReq' = [signupReq EXCEPT ![p] =
              IF UsernameExists(users, r.username)
              THEN [r EXCEPT !.username = Append(r.base, r.counter),
                             !.counter = r.counter + 1]
              ELSE [r EXCEPT !.pc = "save"]]
    /\ UNCHANGED <<users, profiles, companies, applicantProfiles, outsideSignup>>

\* user.save() with its post_save receivers, then self.create_user_profile(user);
\* for a company the steps of Company.objects.get_or_create follow
SignUpSaveUser(p) ==
    /\ signupReq[p].pc = "save"
    /\ LET r == signupReq[p]
           ins == UserInsert(users, [email |-> r.email, username |-> r.username,
                                     user_type |-> r.user_type, name |-> r.name])
           uid == Len(users) + 1
           h == CreationHooks(profiles, uid, signalsConnected)
       IN  IF ins.outcome # "created"
           THEN \* form_valid: except Exception -> form error
                /\ signupReq' = [signupReq EXCEPT ![p] = SignupAnswer("error")]
                /\ UNCHANGED <<users, profiles, applicantProfiles>>
           ELSE /\ users' = ins.rows
                /\ profiles' = h.rows
                /\ IF r.user_type = "applicant"
                   THEN /\ applicantProfiles' =
                              ApplicantGetOrCreateTimes(applicantProfiles, uid, h.attempts)
                        /\ signupReq' = [signupReq EXCEPT ![p] = SavedUser(r, uid)]
                   ELSE /\ UNCHANGED applicantProfiles
                        /\ signupReq' = [signupReq EXCEPT ![p] =
                              IF h.attempts = 0 THEN SavedUser(r, uid)
                              ELSE [r EXCEPT !.pc = "company", !.user = uid,
                                             !.attempts = h.attempts]]
    /\ UNCHANGED <<companies, outsideSignup>>

\* Company.objects.get_or_create(user=user, ...): the lookup; Company.save() starts
\* from slugify(name) when there is no row
SignUpCompanyGet(p) ==
    /\ signupReq[p].pc = "company"
    /\ LET r == signupReq[p]
       IN  signupReq' = [signupReq EXCEPT ![p] =
              IF \E i \in 1..Len(companies) : companies[i].user = r.user
              THEN (IF r.attempts = 1 THEN SavedUser(r, r.user)
                    ELSE [r EXCEPT !.attempts = r.attempts - 1])
              ELSE [r EXCEPT !.pc = "slug", !.slug = <<r.name>>, !.slug_counter = 1]]
    /\ UNCHANGED <<users, profiles, companies, applicantProfiles, outsideSignup>>

\* one test of `while Company.objects.filter(slug=slug)...exists()` in Company.save()
SignUpSlugLoop(p) ==
    /\ signupReq[p].pc = "slug"
    /\ LET r == signupReq[p]
       IN  signupReq' = [signupReq EXCEPT ![p] =
              IF SlugExists(companies, r.slug)
              THEN [r EXCEPT !.slug = <<r.name, r.slug_counter>>,
                             !.slug_counter = r.slug_counter + 1]
              ELSE [r EXCEPT !.pc = "insert"]]
    /\ UNCHANGED <<users, profiles, companies, applicantProfiles, outsideSignup>>

\* super().save() of the Company; an IntegrityError leaves get_or_create, is
\* printed by create_specific_profile and dropped
SignUpCompanyInsert(p) ==
    /\ signupReq[p].pc = "insert"
    /\ LET r == signupReq[p]
           ins == CompanyInsert(companies, [user |-> r.user, slug |-> r.slug])
       IN  /\ companies' = ins.rows
           /\ signupReq' = [signupReq EXCEPT ![p] =
                  IF r.attempts = 1 THEN SavedUser(r, r.user)
                  ELSE [r EXCEPT !.pc = "company", !.attempts = r.attempts - 1]]
    /\ UNCHANGED <<users, profiles, applicantProfiles, outsideSignup>>

\* SignUpView.send_verification_email: building and sending the message may
\* raise (no route, no template, mail backend); the except logs it, and
\* form_valid returns the redirect of super().form_valid
VerificationOutcomes == {"sent", "failed"}

SignUpSendVerificationEmail(p) ==
    /\ signupReq[p].pc = "email"
    /\ \E outcome \in VerificationOutcomes :
          signupReq' = [signupReq EXCEPT ![p] =
              [SignupAnswer("created") EXCEPT !.user = signupReq[p].user,
                                             !.verification = outcome]]
    /\ UNCHANGED <<users, profiles, companies, applicantProfiles, outsideSignup>>

(***************************************************************************)
(* The recommendations page: ApplicantRecommendationsView, a ListView      *)
(* behind ApplicantRequiredMixin.                                          *)
(***************************************************************************)
\* the names class MatchingService defines
MatchingServiceMethods ==
    {"calculate_match_score", "_calculate_skills_score", "_calculate_experience_score",
     "_calculate_location_score", "_calculate_education_score",
     "get_best_matches_for_job", "get_recommended_jobs_for_applicant",
     "recalculate_all_matches"}

\* the upper-case class attributes of JobPost
JobPostChoices == {"STATUS_CHOICES", "EXPERIENCE_LEVELS"}

\* attribute lookup on a class
GetAttr(names, name) == IF name \in names THEN "found" ELSE "AttributeError"

DigitChars == <<"0", "1", "2", "3", "4", "5", "6", "7", "8", "9">>

DigitOf(c) == (CHOOSE d \in 1..Len(DigitChars) : DigitChars[d] = c) - 1

IsDigit(c) == \E d \in 1..Len(DigitChars) : DigitChars[d] = c

RECURSIVE DecimalValue(_)
DecimalValue(text) ==
    IF text = <<>> THEN 0
    ELSE 10 * DecimalValue(SubSeq(text, 1, Len(text) - 1)) + DigitOf(text[Len(text)])

\* int(...) of a query-string value, or of the default 60 when the key is absent
PyInt(param) ==
    IF ~param.present THEN [outcome |-> "ok", value |-> 60]
    ELSE IF param.text # <<>> /\ \A i \in 1..Len(param.text) : IsDigit(param.text[i])
         THEN [outcome |-> "ok", value |-> DecimalValue(param.text)]
         ELSE [outcome |-> "ValueError", value |-> 0]

\* the min_score values a request may carry
MinScoreParams ==
    {[present |-> FALSE, text |-> <<>>],
     [present |-> TRUE, text |-> <<"7", "5">>],
     [present |-> TRUE, text |-> <<"x">>],
     [present |-> TRUE, text |-> <<>>]}

NoResponse ==
    [view |-> "none", user |-> 0, min_score |-> [present |-> FALSE, text |-> <<>>],
     service |-> "none", matches |-> <<>>, status |-> 0, error |-> "none"]

\* ApplicantRecommendationsView.get_queryset
GetQueryset(u, param) ==
    LET min_score == PyInt(param)
        call == GetAttr(MatchingServiceMethods, "get_job_recommendations")
    IN  IF ~(\E i \in 1..Len(applicantProfiles) : applicantProfiles[i].user = u)
        THEN [outcome |-> "RelatedObjectDoesNotExist", service |-> "none", matches |-> <<>>]
        ELSE IF min_score.outcome # "ok"
        THEN [outcome |-> min_score.outcome, service |-> "none", matches |-> <<>>]
        ELSE IF call # "found"
        THEN \* except Exception: logger.error(...); matches = []
             [outcome |-> "ok", service |-> "raised", matches |-> <<>>]
        ELSE [outcome |-> "ok", service |-> "returned", matches |-> <<"recommendations">>]

\* ApplicantRecommendationsView.get_context_data
GetContextData == GetAttr(JobPostChoices, "JOB_TYPE_CHOICES")

\* a GET of the page by user u (0: nobody is logged in): dispatch of the mixin,
\* then ListView.get: get_queryset, get_context_data, render
ApplicantRecommendationsViewGet(p, u, param) ==
    /\ recResp[p].view = "none"
    /\ LET r == [NoResponse EXCEPT !.view = "ApplicantRecommendationsView",
                                   !.user = u, !.min_score = param]
           q == GetQueryset(u, param)
       IN  recResp' = [recResp EXCEPT ![p] =
              IF u = 0 \/ users[u].user_type # "applicant"
              THEN [r EXCEPT !.status = 403, !.error = "PermissionDenied"]
              ELSE IF q.outcome # "ok"
              THEN [r EXCEPT !.status = 500, !.error = q.outcome]
              ELSE IF GetContextData # "found"
              THEN [r EXCEPT !.service = q.service, !.matches = q.matches,
                             !.status = 500, !.error = GetContextData]
              ELSE [r EXCEPT !.service = q.service, !.matches = q.matches,
                             !.status = 200]]
    /\ UNCHANGED outsideRecommend

(***************************************************************************)
(* Courses: enrollment, lessons, quizzes, completion and certificates.     *)
(* The acting applicant a is the logged-in user's applicantprofile.        *)
(***************************************************************************)
EnrollmentStatuses == {"enrolled", "completed", "cancelled"}

IdleCourseRequest ==
    [view |-> "none", pc |-> "idle", course |-> 0, applicant |-> 0, enrollment |-> 0,
     quiz |-> 0, response |-> "none", certificate |-> "none"]

CourseAnswer(view, response) ==
    [IdleCourseRequest EXCEPT !.view = view, !.pc = "done", !.response = response]

\* Enrollment.objects.filter(course=course, applicant=applicant).exists()
EnrollmentExists(rows, c, a) ==
    \E i \in 1..Len(rows) : rows[i].course = c /\ rows[i].applicant = a

\* progress_percentage is kept in hundredths of a percent (DecimalField, 2 places)
NewEnrollment(c, a) == [course |-> c, applicant |-> a, status |-> "enrolled", progress |-> 0]

\* variant: the table takes a second row for the pair
EnrollmentCreateNoUnique(rows, c, a) ==
    [outcome |-> "created", rows |-> Append(rows, NewEnrollment(c, a))]

\* Enrollment.objects.create(course=, applicant=, status='enrolled') under
\* unique_together = ['course', 'applicant']
EnrollmentCreate(rows, c, a) ==
    IF EnrollmentExists(rows, c, a)
    THEN [outcome |-> "IntegrityError", rows |-> rows]
    ELSE [outcome |-> "created", rows |-> Append(rows, NewEnrollment(c, a))]

EnrollViews == {"EnrollCourseView", "EnrollCourseAPIView"}

\* EnrollCourseView.post / EnrollCourseAPIView.post up to the exists() test
EnrollCourseCheck(p, view, c, a) ==
    /\ courseReq[p].pc = "idle"
    /\ courseReq' = [courseReq EXCEPT ![p] =
          IF ~courses[c].is_active
          THEN CourseAnswer(view, "not found")
          ELSE IF EnrollmentExists(enrollments, c, a)
          THEN [CourseAnswer(view, "already enrolled") EXCEPT !.course = c, !.applicant = a]
          ELSE [IdleCourseRequest EXCEPT !.view = view, !.pc = "create",
                                         !.course = c, !.applicant = a]]
    /\ UNCHANGED <<enrollments, lessonProgress, quizAttempts, certificates, courseResp,
                   outsideCourse>>

\* the create: EnrollCourseView lets an IntegrityError through (server error),
\* EnrollCourseAPIView answers it from its except Exception
EnrollCourseCreate(p) ==
    /\ courseReq[p].pc = "create"
    /\ LET r == courseReq[p]
           c == EnrollmentCreate(enrollments, r.course, r.applicant)
       IN  /\ enrollments' = c.rows
           /\ courseReq' = [courseReq EXCEPT ![p] =
                 [CourseAnswer(r.view,
                     IF c.outcome = "created" THEN "enrolled"
                     ELSE IF r.view = "EnrollCourseView" THEN "server error"
                     ELSE "error") EXCEPT !.course = r.course, !.applicant = r.applicant,
                                          !.enrollment = IF c.outcome = "created"
                                                         THEN Len(c.rows) ELSE 0]]
    /\ UNCHANGED <<lessonProgress, quizAttempts, certificates, courseResp, outsideCourse>>

\* Enrollment.objects.get(course=, applicant=, status='enrolled'): the row id, 0 if none
EnrolledIn(c, a) ==
    IF \E i \in 1..Len(enrollments) :
          enrollments[i].course = c /\ enrollments[i].applicant = a
          /\ enrollments[i].status = "enrolled"
    THEN CHOOSE i \in 1..Len(enrollments) :
          enrollments[i].course = c /\ enrollments[i].applicant = a
          /\ enrollments[i].status = "enrolled"
    ELSE 0

ActiveLessons(c) == {l \in Lessons : lessons[l].course = c /\ lessons[l].is_active}

ActiveQuizzes(c) == {q \in Quizzes : quizzes[q].course = c /\ quizzes[q].is_active}

\* LessonProgress.objects.filter(enrollment=, is_completed=True, lesson__is_active=True)
CompletedLessons(e) ==
    {l \in Lessons : lessons[l].is_active
                     /\ [enrollment |-> e, lesson |-> l, is_completed |-> TRUE] \in lessonProgress}

\* (completed / total) * 100, as the DecimalField stores it
ProgressOf(completed, total) == ((completed * 20000) + total) \div (2 * total)

\* CompleteLessonView.post with update_course_progress
CompleteLessonViewPost(l, a) ==
    /\ LET e == EnrolledIn(lessons[l].course, a)
           row == [enrollment |-> e, lesson |-> l, is_completed |-> TRUE]
           total == Cardinality(ActiveLessons(lessons[l].course))
           done == Cardinality({k \in ActiveLessons(lessons[l].course) :
                                   k = l \/ k \in CompletedLessons(e)})
       IN  IF e = 0
           THEN /\ courseResp' =
                                    CourseAnswer("CompleteLessonView", "not enrolled")
                /\ UNCHANGED <<enrollments, lessonProgress>>
           ELSE IF row \in lessonProgress
           THEN /\ courseResp' =
                                    CourseAnswer("CompleteLessonView", "already completed")
                /\ UNCHANGED <<enrollments, lessonProgress>>
           ELSE /\ lessonProgress' = lessonProgress \cup {row}
                /\ enrollments' =
                      IF total > 0
                      THEN [enrollments EXCEPT ![e].progress = ProgressOf(done, total)]
                      ELSE enrollments
                /\ courseResp' =
                      [CourseAnswer("CompleteLessonView", "completed") EXCEPT !.enrollment = e]
    /\ UNCHANGED <<quizAttempts, certificates, courseReq, outsideCourse>>

AttemptsOf(rows, e, q) == {i \in 1..Len(rows) : rows[i].enrollment = e /\ rows[i].quiz = q}

\* the model fields of Question and of QuizAttempt
QuestionFields ==
    {"quiz", "question_text", "question_type", "points", "order", "explanation"}

QuizAttemptFields ==
    {"enrollment", "quiz", "score", "is_passed", "attempt_number", "started_at",
     "attempted_at", "time_taken"}

\* QuizAttemptView.calculate_quiz_score: quiz.question_set.filter(is_active=True)...;
\* with every answer counted as correct the score is 100, or 0 without questions
CalculateQuizScore(questions) ==
    IF "is_active" \notin QuestionFields
    THEN [outcome |-> "FieldError", score |-> 0]
    ELSE [outcome |-> "ok", score |-> IF questions > 0 THEN 100 ELSE 0]

\* variant: the submission is scored and stored
SubmitQuizStored(rows, e, q, questions) ==
    [outcome |-> "created",
     rows |-> Append(rows, [enrollment |-> e, quiz |-> q, score |-> 100,
                            is_passed |-> 100 >= quizzes[q].passing_score,
                            attempt_number |-> Cardinality(AttemptsOf(rows, e, q)) + 1])]

\* the scoring and the QuizAttempt.objects.create(enrollment=, quiz=, score=,
\* answers=, time_taken=, attempted_at=) of QuizAttemptView.post
SubmitQuiz(rows, e, q, questions) ==
    LET s == CalculateQuizScore(questions)
    IN  IF s.outcome # "ok"
        THEN [outcome |-> s.outcome, rows |-> rows]
        ELSE IF {"enrollment", "quiz", "score", "answers", "time_taken", "attempted_at"}
                  \subseteq QuizAttemptFields
        THEN [outcome |-> "IntegrityError", rows |-> rows]
        ELSE [outcome |-> "TypeError", rows |-> rows]

\* the number of questions a quiz may have
QuestionCounts == {0, 1}

\* QuizAttemptView.post
QuizAttemptViewPost(q, a, questions) ==
    /\ LET e == EnrolledIn(quizzes[q].course, a)
           sub == SubmitQuiz(quizAttempts, e, q, questions)
       IN  IF e = 0
           THEN /\ courseResp' =
                                    CourseAnswer("QuizAttemptView", "not enrolled")
                /\ UNCHANGED quizAttempts
           ELSE /\ quizAttempts' = sub.rows
                /\ courseResp' =
                      [CourseAnswer("QuizAttemptView",
                          IF sub.outcome = "created" THEN "recorded" ELSE "server error")
                       EXCEPT !.enrollment = e, !.quiz = q]
    /\ UNCHANGED <<enrollments, lessonProgress, certificates, courseReq, outsideCourse>>

\* QuizAttempt.objects.filter(enrollment=, quiz=).order_by('-score').first() exists
\* and is_passed
BestAttemptPassed(e, q) ==
    LET mine == AttemptsOf(quizAttempts, e, q)
        best == {i \in mine : \A k \in mine : quizAttempts[k].score <= quizAttempts[i].score}
    IN  best # {} /\ \A i \in best : quizAttempts[i].is_passed

\* variant: the quizzes are not looked at
CompletionCheckLessonsOnly(e) ==
    LET c == enrollments[e].course
    IN  Cardinality(ActiveLessons(c)) > 0 =>
           Cardinality(CompletedLessons(e)) >= Cardinality(ActiveLessons(c))

\* CompleteEnrollmentView.check_completion_requirements(enrollment)['can_complete']
\* for an 'enrolled' enrollment; Course has no minimum_time_hours
CheckCompletionRequirements(e) ==
    LET c == enrollments[e].course
    IN  /\ Cardinality(ActiveLessons(c)) > 0 =>
              ~(Cardinality(CompletedLessons(e)) < Cardinality(ActiveLessons(c)))
        /\ \A q \in ActiveQuizzes(c) : BestAttemptPassed(e, q)

\* how building and storing the PDF may go: generate_certificate may raise
\* (settings, files, reportlab), and so may pdf_file.save after the row is created
Generations == {"ok", "generate raises", "save raises"}

HasCertificate(rows, e) == \E i \in 1..Len(rows) : rows[i].enrollment = e

\* CertificateGenerator.create_certificate_record(enrollment), with
\* generate_certificate's status test; Certificate.enrollment is a OneToOneField
CreateCertificateRecord(rows, e, status, generation) ==
    IF status # "completed"
    THEN [outcome |-> "ValueError", rows |-> rows]
    ELSE IF generation = "generate raises"
    THEN [outcome |-> "Exception", rows |-> rows]
    ELSE IF HasCertificate(rows, e)
    THEN [outcome |-> "IntegrityError", rows |-> rows]
    ELSE IF generation = "save raises"
    THEN [outcome |-> "Exception",
          rows |-> Append(rows, [enrollment |-> e, pdf_file |-> FALSE])]
    ELSE [outcome |-> "created",
          rows |-> Append(rows, [enrollment |-> e, pdf_file |-> TRUE])]

\* variant: the lookup does not filter on status='enrolled'
OwnAnyStatus(e, a) ==
    /\ e \in 1..Len(enrollments)
    /\ enrollments[e].applicant = a

\* get_object_or_404(Enrollment, pk=pk, applicant=, status='enrolled') finds the row
OwnEnrolled(e, a) ==
    /\ e \in 1..Len(enrollments)
    /\ enrollments[e].applicant = a
    /\ enrollments[e].status = "enrolled"

\* variant: what create_certificate_record raises leaves the view
AfterCertificateUncaught(outcome) ==
    IF outcome = "created"
    THEN [response |-> "redirect", certificate |-> "created"]
    ELSE [response |-> "server error", certificate |-> "failed"]

\* the try/except around create_certificate_record in CompleteEnrollmentView.post:
\* either way a success message and the redirect to enrollment_detail
AfterCertificate(outcome) ==
    [response |-> "redirect",
     certificate |-> IF outcome = "created" THEN "created" ELSE "failed"]

\* CompleteEnrollmentView.post; notify_certificate_error, log_course_completion and
\* send_completion_notification each catch what they raise
CompleteEnrollmentViewPost(e, a, generation) ==
    /\ IF ~OwnEnrolled(e, a)
       THEN /\ courseResp' =
                                CourseAnswer("CompleteEnrollmentView", "not found")
            /\ UNCHANGED <<enrollments, certificates>>
       ELSE IF ~CheckCompletionRequirements(e)
       THEN /\ courseResp' =
                   [CourseAnswer("CompleteEnrollmentView", "requirements missing")
                    EXCEPT !.enrollment = e]
            /\ UNCHANGED <<enrollments, certificates>>
       ELSE LET cert == CreateCertificateRecord(certificates, e, "completed", generation)
                after == AfterCertificate(cert.outcome)
            IN  /\ enrollments' = [enrollments EXCEPT ![e].status = "completed",
                                                      ![e].progress = 10000]
                /\ certificates' = cert.rows
                /\ courseResp' =
                      [CourseAnswer("CompleteEnrollmentView", after.response)
                       EXCEPT !.enrollment = e, !.certificate = after.certificate]
    /\ UNCHANGED <<lessonProgress, quizAttempts, courseReq, outsideCourse>>

\* CancelEnrollmentView.check_cancellation_policy for an 'enrolled' enrollment;
\* late: more than COURSE_CANCELLATION_DAYS (30) days since enrolled_at
CheckCancellationPolicy(e, late) ==
    /\ ~late
    /\ ~(enrollments[e].progress > 8000)
    /\ ~HasCertificate(certificates, e)

\* CancelEnrollmentView.post with process_cancellation
CancelEnrollmentViewPost(e, a, late) ==
    /\ IF ~OwnEnrolled(e, a)
       THEN /\ courseResp' =
                                CourseAnswer("CancelEnrollmentView", "not found")
            /\ UNCHANGED enrollments
       ELSE IF ~CheckCancellationPolicy(e, late)
       THEN /\ courseResp' =
                   [CourseAnswer("CancelEnrollmentView", "refused") EXCEPT !.enrollment = e]
            /\ UNCHANGED enrollments
       ELSE /\ enrollments' = [enrollments EXCEPT ![e].status = "cancelled"]
            /\ courseResp' =
                   [CourseAnswer("CancelEnrollmentView", "cancelled") EXCEPT !.enrollment = e]
    /\ UNCHANGED <<lessonProgress, quizAttempts, certificates, courseReq, outsideCourse>>

\* who calls the certificate API: InstructorRequiredMixin lets 'admin' and
\* 'instructor' through
ActorTypes == {"admin", "applicant"}

\* variant: a certificate for whatever enrollment is named
GenerateCertificateAnyEnrollment(e, actor, generation) ==
    /\ e \in 1..Len(enrollments)
    /\ certificates' = Append(certificates, [enrollment |-> e, pdf_file |-> TRUE])
    /\ courseResp' =
          [CourseAnswer("GenerateCertificateAPIView", "generated") EXCEPT !.enrollment = e]
    /\ UNCHANGED <<enrollments, lessonProgress, quizAttempts, courseReq, outsideCourse>>

\* GenerateCertificateAPIView.post
GenerateCertificateAPIViewPost(e, actor, generation) ==
    /\ e \in 1..Len(enrollments)
    /\ LET cert == CreateCertificateRecord(certificates, e, enrollments[e].status, generation)
       IN  IF actor \notin {"admin", "instructor"}
           THEN /\ courseResp' =
                                    CourseAnswer("GenerateCertificateAPIView", "forbidden")
                /\ UNCHANGED certificates
           ELSE IF enrollments[e].status # "completed"
           THEN /\ courseResp' =
                                    CourseAnswer("GenerateCertificateAPIView", "not found")
                /\ UNCHANGED certificates
           ELSE IF HasCertificate(certificates, e)
           THEN /\ courseResp' =
                                    CourseAnswer("GenerateCertificateAPIView", "already generated")
                /\ UNCHANGED certificates
           ELSE /\ certificates' = cert.rows
                /\ courseResp' =
                      [CourseAnswer("GenerateCertificateAPIView",
                          IF cert.outcome = "created" THEN "generated" ELSE "error")
                       EXCEPT !.enrollment = e]
    /\ UNCHANGED <<enrollments, lessonProgress, quizAttempts, courseReq, outsideCourse>>

\* the response is delivered
CourseResponseSent(p) ==
    /\ courseReq[p].pc = "done"
    /\ courseReq' = [courseReq EXCEPT ![p] = IdleCourseRequest]
    /\ UNCHANGED <<enrollments, lessonProgress, quizAttempts, certificates, courseResp,
                   outsideCourse>>

(***************************************************************************)
(* The job approval workflow: the company views of jobs.views and          *)
(* companies.views, the administrator views, the actions of JobPostAdmin   *)
(* and JobPostAdminForm.  jobPosts holds the rows 1..Len(jobPosts).        *)
(***************************************************************************)
Absent == "absent"

\* JobPost defaults: status 'draft', is_active True
DefaultJob ==
    [status |-> "draft", is_active |-> TRUE, experience_level |-> "entry",
     skills_required |-> {}, location |-> <<>>, is_expired |-> FALSE]

NoJobResponse ==
    [view |-> "none", job |-> 0, response |-> "none", was |-> "none", status |-> Absent]

\* what a view answered: the job it acted on, the job's status before, and for
\* a creation the status the caller gave
JobAnswer(view, j, response, was, status) ==
    [view |-> view, job |-> j, response |-> response, was |-> was, status |-> status]

\* variant: the status field of the model defaults to 'pending'
JobPostDefaultsPending(kwargs) ==
    [f \in DOMAIN DefaultJob |->
        IF f \in DOMAIN kwargs THEN kwargs[f]
        ELSE IF f = "status" THEN "pending" ELSE DefaultJob[f]]

\* JobPost(**kwargs): a field the caller does not give takes the default of
\* the model, status 'draft' and is_active True
JobPostObjectsCreate(kwargs) ==
    [f \in DOMAIN DefaultJob |-> IF f \in DOMAIN kwargs THEN kwargs[f] ELSE DefaultJob[f]]

\* the keyword arguments of a call: the fields named in given, with their values
Kwargs(given, values) == [f \in given |-> values[f]]

StatusOf(kwargs) == IF "status" \in DOMAIN kwargs THEN kwargs["status"] ELSE Absent

JobIds == DOMAIN jobPosts

\* the row is inserted under the next primary key
JobInsert(view, row, status) ==
    /\ Len(jobPosts) < MaxJobPosts
    /\ jobPosts' = Append(jobPosts, row)
    /\ jobResp' = JobAnswer(view, Len(jobPosts) + 1, "created", "none", status)

\* JobPost.objects.create(...) as JobPostModelTest does it, without a status,
\* or with one as CloneJobView does; no caller passes is_active
JobPostCreation(kwargs) ==
    /\ JobInsert("JobPost.objects.create", JobPostObjectsCreate(kwargs), StatusOf(kwargs))
    /\ UNCHANGED <<applications, outsideWorkflow>>

\* jobs.CreateJobView and companies.CreateJobView: the form class names the
\* fields 'salary' / 'job_type', 'currency', which JobPost does not have, so
\* building the ModelForm raises FieldError before anything is stored
CreateJobView(view) ==
    /\ jobResp' = JobAnswer(view, 0, "server error", "none", Absent)
    /\ UNCHANGED <<jobPosts, applications, outsideWorkflow>>

\* jobs.EditJobView.form_valid without the return to 'pending'
EditJobViewKeepsStatus(j) ==
    /\ j \in JobIds
    /\ UNCHANGED jobPosts
    /\ jobResp' = JobAnswer("EditJobView", j, "updated", jobPosts[j].status, Absent)
    /\ UNCHANGED <<applications, outsideWorkflow>>

\* jobs.EditJobView.form_valid: an approved job goes back to 'pending', then
\* the form is saved.  The company rewrites the texts of the job, which the
\* rows here do not hold, and posts the other fields as they are
EditJobViewFormValid(j) ==
    /\ j \in JobIds
    /\ jobPosts' = [jobPosts EXCEPT ![j].status = IF @ = "approved" THEN "pending" ELSE @]
    /\ jobResp' = JobAnswer("EditJobView", j,
                            IF jobPosts[j].status = "approved" THEN "resubmitted" ELSE "updated",
                            jobPosts[j].status, Absent)
    /\ UNCHANGED <<applications, outsideWorkflow>>

\* companies.EditJobView: its form class names 'job_type' and 'currency',
\* FieldError on every request
CompaniesEditJobView(j) ==
    /\ j \in JobIds
    /\ jobResp' = JobAnswer("companies.EditJobView", j, "server error", jobPosts[j].status, Absent)
    /\ UNCHANGED <<jobPosts, applications, outsideWorkflow>>

\* jobs.CloneJobView.post: a copy with status='draft'; the loop over the
\* skills of the original names JobPostSkill, which jobs.views does not
\* import (NameError after the copy is stored)
CloneJobViewPost(j) ==
    /\ j \in JobIds
    /\ Len(jobPosts) < MaxJobPosts
    /\ jobPosts' = Append(jobPosts,
            JobPostObjectsCreate([status |-> "draft",
                                  experience_level |-> jobPosts[j].experience_level,
                                  location |-> jobPosts[j].location]))
    /\ jobResp' = JobAnswer("CloneJobView", Len(jobPosts) + 1,
                            IF jobPosts[j].skills_required = {} THEN "created" ELSE "server error",
                            "none", "draft")
    /\ UNCHANGED <<applications, outsideWorkflow>>

\* companies.CloseJobView.post and ReopenJobView.post
SetActiveView(view, j, active) ==
    /\ j \in JobIds
    /\ jobPosts' = [jobPosts EXCEPT ![j].is_active = active]
    /\ jobResp' = JobAnswer(view, j, "saved", jobPosts[j].status, Absent)
    /\ UNCHANGED <<applications, outsideWorkflow>>

CloseJobViewPost(j) == SetActiveView("CloseJobView", j, FALSE)
ReopenJobViewPost(j) == SetActiveView("ReopenJobView", j, TRUE)

\* variant: the lookup does not filter on status='pending'
ModerateAnyStatus(view, j, status) ==
    /\ j \in JobIds
    /\ jobPosts' = [jobPosts EXCEPT ![j].status = status]
    /\ jobResp' = JobAnswer(view, j, "saved", jobPosts[j].status, Absent)
    /\ UNCHANGED <<applications, outsideWorkflow>>

\* ApproveJobView.post and RejectJobAdminView.post:
\* get_object_or_404(JobPost, pk=pk, status='pending'), then the new status
Moderate(view, j, status) ==
    /\ j \in JobIds
    /\ IF jobPosts[j].status # "pending"
       THEN /\ jobResp' = JobAnswer(view, j, "404", jobPosts[j].status, Absent)
            /\ UNCHANGED jobPosts
       ELSE /\ jobPosts' = [jobPosts EXCEPT ![j].status = status]
            /\ jobResp' = JobAnswer(view, j, "saved", "pending", Absent)
    /\ UNCHANGED <<applications, outsideWorkflow>>

ApproveJobViewPost(j) == Moderate("ApproveJobView", j, "approved")
RejectJobAdminViewPost(j) == Moderate("RejectJobAdminView", j, "rejected")

\* JobPostAdmin.approve_jobs / reject_jobs:
\* queryset.filter(status='pending').update(status=...)
JobPostAdminModerate(action, queryset, status) ==
    /\ queryset \subseteq JobIds
    /\ jobPosts' = [j \in JobIds |->
            IF j \in queryset /\ jobPosts[j].status = "pending"
            THEN [jobPosts[j] EXCEPT !.status = status]
            ELSE jobPosts[j]]
    /\ jobResp' = JobAnswer(action, 0, "updated", "none", Absent)
    /\ UNCHANGED <<applications, outsideWorkflow>>

ApproveJobs(queryset) == JobPostAdminModerate("approve_jobs", queryset, "approved")
RejectJobs(queryset) == JobPostAdminModerate("reject_jobs", queryset, "rejected")

\* JobPostAdmin.activate_jobs / deactivate_jobs: queryset.update(is_active=...)
JobPostAdminSetActive(action, queryset, active) ==
    /\ queryset \subseteq JobIds
    /\ jobPosts' = [j \in JobIds |->
            IF j \in queryset THEN [jobPosts[j] EXCEPT !.is_active = active]
            ELSE jobPosts[j]]
    /\ jobResp' = JobAnswer(action, 0, "updated", "none", Absent)
    /\ UNCHANGED <<applications, outsideWorkflow>>

ActivateJobs(queryset) == JobPostAdminSetActive("activate_jobs", queryset, TRUE)
DeactivateJobs(queryset) == JobPostAdminSetActive("deactivate_jobs", queryset, FALSE)

\* variant: a draft may be approved directly
TransitionsWithDraftApproved ==
    [draft |-> {"pending", "rejected", "approved"}, pending |-> {"approved", "rejected"},
     approved |-> {"closed", "rejected"}, rejected |-> {"pending"},
     closed |-> {"approved"}]

\* JobPostAdminForm.validate_status_change: valid_transitions
ValidTransitions ==
    [draft |-> {"pending", "rejected"}, pending |-> {"approved", "rejected"},
     approved |-> {"closed", "rejected"}, rejected |-> {"pending"},
     closed |-> {"approved"}]

\* JobPostAdminForm.validate_status_change(old_status, new_status) with the
\* posted skills: TRUE when no ValidationError is raised
ValidateStatusChange(old_status, new_status, skills) ==
    \/ old_status = new_status
    \/ /\ new_status \in ValidTransitions[old_status]
       /\ new_status = "approved" => skills # {}

\* JobPostAdminForm.clean_rejection_reason: a rejection needs a reason
CleanRejectionReason(status, reason) == status = "rejected" => reason

\* whether a reason is posted: it is read for a rejection only
Reasons(status) == IF status = "rejected" THEN BOOLEAN ELSE {FALSE}

\* the skills the admin form can post: they are read for an approval only
PostedSkills(status) == IF status = "approved" THEN {{}, {1}} ELSE {{}}

\* the change form of JobPostAdmin (JobPostAdminForm on an existing row):
\* clean, then save.  The fieldsets of JobPostAdmin leave skills_required out
\* of Meta.fields, so the posted skills are validated and not stored
JobPostAdminFormChange(j, status, is_active, skills, reason) ==
    /\ j \in JobIds
    /\ IF CleanRejectionReason(status, reason)
          /\ ValidateStatusChange(jobPosts[j].status, status, skills)
       THEN /\ jobPosts' = [jobPosts EXCEPT ![j].status = status,
                                            ![j].is_active = is_active]
            /\ jobResp' = JobAnswer("JobPostAdminForm", j, "saved", jobPosts[j].status, Absent)
       ELSE /\ jobResp' = JobAnswer("JobPostAdminForm", j, "invalid", jobPosts[j].status, Absent)
            /\ UNCHANGED jobPosts
    /\ UNCHANGED <<applications, outsideWorkflow>>

\* the add form of JobPostAdmin: no instance.pk, so clean() skips
\* validate_status_change and the posted status is stored as it is
JobPostAdminFormAdd(status, is_active, reason) ==
    /\ IF CleanRejectionReason(status, reason)
       THEN JobInsert("JobPostAdminForm add",
                      JobPostObjectsCreate([status |-> status, is_active |-> is_active]),
                      status)
       ELSE /\ jobResp' = JobAnswer("JobPostAdminForm add", 0, "invalid", "none", status)
            /\ UNCHANGED jobPosts
    /\ UNCHANGED <<applications, outsideWorkflow>>

(***************************************************************************)
(* Managing applications: the applicant withdraws, the company and the     *)
(* administrator set the status.  An application is named by its pair and  *)
(* its position among the rows of the pair.                                *)
(***************************************************************************)
ApplicationStatuses ==
    {"applied", "reviewing", "shortlisted", "interviewed", "accepted", "rejected", "withdrawn"}

\* the status a request can post: one of STATUS_CHOICES or something else
PostedStatuses == ApplicationStatuses \cup {"unknown"}

ApplicationIds == {id \in Pairs \X (1..NumRequests) : id[2] <= Len(applications[id[1]])}

StatusOfApplication(id) == applications[id[1]][id[2]].status

\* application.status = status; application.save(), and
\* queryset.update(status=status) over the rows in ids
SetStatus(ids, status) ==
    [pr \in Pairs |->
        [i \in 1..Len(applications[pr]) |->
            IF <<pr, i>> \in ids THEN [applications[pr][i] EXCEPT !.status = status]
            ELSE applications[pr][i]]]

appOutside == <<jobPosts, jobResp, outsideWorkflow>>

\* jobs.WithdrawApplicationView.post and applicants.WithdrawApplicationView.post:
\* get_object_or_404(..., status__in=['applied', 'reviewing']), then 'withdrawn'
WithdrawApplicationViewPost(id) ==
    /\ id \in ApplicationIds
    /\ StatusOfApplication(id) \in {"applied", "reviewing"}
    /\ applications' = SetStatus({id}, "withdrawn")
    /\ UNCHANGED appOutside

\* jobs.UpdateApplicationStatusView.post, companies.UpdateApplicationStatusView.post
\* and companies.ApplicationStatusAPIView.post: any status of STATUS_CHOICES is
\* stored, whatever the status was; another value is answered 'Estado inválido'
UpdateApplicationStatusViewPost(id, new_status) ==
    /\ id \in ApplicationIds
    /\ new_status \in ApplicationStatuses
    /\ applications' = SetStatus({id}, new_status)
    /\ UNCHANGED appOutside

\* ShortlistApplicationView.post
ShortlistApplicationViewPost(id) ==
    /\ id \in ApplicationIds
    /\ applications' = SetStatus({id}, "shortlisted")
    /\ UNCHANGED appOutside

\* RejectApplicationView.post
RejectApplicationViewPost(id) ==
    /\ id \in ApplicationIds
    /\ applications' = SetStatus({id}, "rejected")
    /\ UNCHANGED appOutside

BulkActions == {"shortlist", "reject", "other"}

\* companies.BulkApplicationActionView.post: applications.update(status=...)
\* for 'shortlist' and 'reject', nothing for another action
BulkApplicationActionViewPost(ids, action) ==
    /\ ids \subseteq ApplicationIds
    /\ action \in {"shortlist", "reject"}
    /\ applications' = SetStatus(ids, IF action = "shortlist" THEN "shortlisted" ELSE "rejected")
    /\ UNCHANGED appOutside

\* ApplicationAdmin.mark_as_reviewing / mark_as_shortlisted / mark_as_rejected:
\* queryset.update(status=...)
ApplicationAdminMarkAs(queryset, status) ==
    /\ queryset \subseteq ApplicationIds
    /\ applications' = SetStatus(queryset, status)
    /\ UNCHANGED appOutside

\* JobPost.is_expired: the deadline of the job passes
DeadlinePasses(j) ==
    /\ ~jobPosts[j].is_expired
    /\ jobPosts' = [jobPosts EXCEPT ![j].is_expired = TRUE]
    /\ UNCHANGED <<applications, jobResp, outsideWorkflow>>

(***************************************************************************)
(* Initial states and specifications.                                      *)
(***************************************************************************)
\* ApplicantProfile defaults: years_experience 0, no skills; Profile.location ''
DefaultApplicant == [user |-> 0, skills |-> {}, years_experience |-> 0, location |-> <<>>]

DefaultJobs == [j \in Jobs |-> DefaultJob]
DefaultApplicants == [a \in Applicants |-> [DefaultApplicant EXCEPT !.user = a]]

\* the users of the applicants, each with its Profile
ApplicantUsers ==
    [a \in Applicants |->
        [email |-> [local |-> <<"u", a>>, domain |-> "x"], username |-> <<"u", a>>,
         user_type |-> "applicant", name |-> "n"]]

SignupIdle ==
    /\ users = ApplicantUsers
    /\ profiles = [a \in Applicants |-> [user |-> a, location |-> <<>>]]
    /\ companies = <<>>
    /\ signupReq = [p \in Signups |-> IdleSignup]
    /\ signalsConnected = TRUE

ApplyIdle ==
    /\ applications = [pr \in Pairs |-> <<>>]
    /\ applyReq = [p \in Requests |-> IdleRequest]

MatchIdle ==
    /\ matchScores = <<>>
    /\ ret = NoRet
    /\ cache = [pr \in Pairs |-> NoRow]

RecommendIdle == recResp = [p \in Requests |-> NoResponse]

WorkflowIdle == jobResp = NoJobResponse

\* one lesson and one quiz per id, dealt to the courses in turn; nobody enrolled
DefaultCourse == [is_active |-> TRUE]
DefaultLesson(l) == [course |-> ((l - 1) % NumCourses) + 1, is_active |-> TRUE]
DefaultQuiz(q) ==
    [course |-> ((q - 1) % NumCourses) + 1, is_active |-> TRUE, passing_score |-> 70,
     max_attempts |-> 3]

CourseIdle ==
    /\ courses = [c \in Courses |-> DefaultCourse]
    /\ lessons = [l \in Lessons |-> DefaultLesson(l)]
    /\ quizzes = [q \in Quizzes |-> DefaultQuiz(q)]
    /\ enrollments = <<>>
    /\ lessonProgress = {}
    /\ quizAttempts = <<>>
    /\ certificates = <<>>
    /\ courseReq = [p \in Requests |-> IdleCourseRequest]
    /\ courseResp = IdleCourseRequest

\* the matching data of one pair, one aspect of it at a time
MatchInit ==
    /\ \E j \in Jobs, a \in Applicants :
        \/ \E req \in SUBSET Skills, cand \in SUBSET Skills :
              /\ jobPosts = [DefaultJobs EXCEPT ![j].skills_required = req]
              /\ applicantProfiles = [DefaultApplicants EXCEPT ![a].skills = cand]
        \/ \E lvl \in ExperienceLevels, yrs \in Years :
              /\ jobPosts = [DefaultJobs EXCEPT ![j].experience_level = lvl]
              /\ applicantProfiles = [DefaultApplicants EXCEPT ![a].years_experience = yrs]
        \/ \E jl \in Locations, al \in Locations :
              /\ jobPosts = [DefaultJobs EXCEPT ![j].location = jl]
              /\ applicantProfiles = [DefaultApplicants EXCEPT ![a].location = al]
    /\ MatchIdle
    /\ ApplyIdle
    /\ SignupIdle
    /\ RecommendIdle
    /\ CourseIdle
    /\ WorkflowIdle

MatchNext ==
    \E j \in Jobs, a \in Applicants :
        \/ CallSkillsScore(j, a)
        \/ CallExperienceScore(j, a)
        \/ CallLocationScore(j, a)
        \/ CallEducationScore(j, a)
        \/ CallCalculateMatchScore(j, a)

SpecMatch == MatchInit /\ [][MatchNext]_vars

\* some jobs approved and open to applications, the others still drafts
ApplyInit ==
    /\ \E open \in SUBSET Jobs :
          jobPosts = [j \in Jobs |->
                        IF j \in open THEN [DefaultJob EXCEPT !.status = "approved"]
                        ELSE DefaultJob]
    /\ applicantProfiles = DefaultApplicants
    /\ MatchIdle
    /\ ApplyIdle
    /\ SignupIdle
    /\ RecommendIdle
    /\ CourseIdle
    /\ WorkflowIdle

ApplyNext ==
    \E p \in Requests :
        \/ \E j \in Jobs, a \in Applicants :
              \/ ApplyJobViewPost(p, j, a)
              \/ ApplyJobAPIViewCheck(p, j, a)
        \/ ApplyJobAPIViewCreate(p)
        \/ ApplyResponseSent(p)

SpecApply == ApplyInit /\ [][ApplyNext]_vars

\* an empty user base, or one applicant who signed up earlier as a@x; the
\* receivers registered or not
SignupInit ==
    /\ jobPosts = DefaultJobs
    /\ \E n \in {0, 1} :
          /\ users = [i \in 1..n |-> [email |-> [local |-> <<"a">>, domain |-> "x"],
                                       username |-> <<"a">>, user_type |-> "applicant",
                                       name |-> "n"]]
          /\ profiles = [i \in 1..n |-> [user |-> i, location |-> <<>>]]
          /\ applicantProfiles = [i \in 1..n |-> [DefaultApplicant EXCEPT !.user = i]]
    /\ companies = <<>>
    /\ signupReq = [p \in Signups |-> IdleSignup]
    /\ signalsConnected \in BOOLEAN
    /\ MatchIdle
    /\ ApplyIdle
    /\ RecommendIdle
    /\ CourseIdle
    /\ WorkflowIdle

SignupNext ==
    \E p \in Signups :
        \/ \E email \in Emails, user_type \in UserTypes, name \in Names :
              SignUpSubmit(p, email, user_type, name)
        \/ SignUpUsernameLoop(p)
        \/ SignUpSaveUser(p)
        \/ SignUpCompanyGet(p)
        \/ SignUpSlugLoop(p)
        \/ SignUpCompanyInsert(p)
        \/ SignUpSendVerificationEmail(p)

SpecSignup == SignupInit /\ [][SignupNext]_vars

\* the applicants, and possibly one company account next to them
RecommendInit ==
    /\ jobPosts = DefaultJobs
    /\ applicantProfiles = DefaultApplicants
    /\ \E n \in {0, 1} :
          /\ users = ApplicantUsers \o
                [i \in 1..n |-> [email |-> [local |-> <<"c">>, domain |-> "x"],
                                 username |-> <<"c">>, user_type |-> "company",
                                 name |-> "n"]]
          /\ profiles = [i \in 1..(NumApplicants + n) |-> [user |-> i, location |-> <<>>]]
          /\ companies = [i \in 1..n |-> [user |-> NumApplicants + i, slug |-> <<"n">>]]
    /\ signupReq = [p \in Signups |-> IdleSignup]
    /\ signalsConnected = TRUE
    /\ MatchIdle
    /\ ApplyIdle
    /\ RecommendIdle
    /\ CourseIdle
    /\ WorkflowIdle

RecommendNext ==
    \E p \in Requests, param \in MinScoreParams :
        \E u \in 0..Len(users) : ApplicantRecommendationsViewGet(p, u, param)

SpecRecommend == RecommendInit /\ [][RecommendNext]_vars

\* quiz scores of attempts stored before
QuizScores == {50, 80}

\* the attempts an enrollment may already have on a quiz, within its limit
StoredAttempts(e, q, maxAttempts) ==
    UNION {[1..n -> QuizScores] : n \in 0..maxAttempts}

\* the first applicant is enrolled in the first course
FirstEnrollment == <<NewEnrollment(1, 1)>>

\* a catalog of lessons and quizzes, active or not, and the first applicant
\* enrolled in the first course with attempts on its first quiz
CourseInit ==
    /\ jobPosts = DefaultJobs
    /\ applicantProfiles = DefaultApplicants
    /\ courses = [c \in Courses |-> DefaultCourse]
    /\ \E act \in [Lessons -> BOOLEAN] :
          lessons = [l \in Lessons |-> [DefaultLesson(l) EXCEPT !.is_active = act[l]]]
    /\ \E act \in [Quizzes -> BOOLEAN], lim \in 1..MaxAttempts :
          quizzes = [q \in Quizzes |-> [DefaultQuiz(q) EXCEPT !.is_active = act[q],
                                                              !.max_attempts = lim]]
    /\ enrollments = FirstEnrollment
    /\ \E scores \in StoredAttempts(1, 1, quizzes[1].max_attempts) :
          quizAttempts =
             [i \in 1..Len(scores) |->
                 [enrollment |-> 1, quiz |-> 1, score |-> scores[i],
                  is_passed |-> scores[i] >= quizzes[1].passing_score,
                  attempt_number |-> i]]
    /\ lessonProgress = {}
    /\ certificates = <<>>
    /\ courseReq = [p \in Requests |-> IdleCourseRequest]
    /\ courseResp = IdleCourseRequest
    /\ MatchIdle
    /\ ApplyIdle
    /\ SignupIdle
    /\ RecommendIdle
    /\ WorkflowIdle

CourseNext ==
    \/ \E a \in Applicants :
          \/ \E l \in Lessons : CompleteLessonViewPost(l, a)
          \/ \E q \in Quizzes, questions \in QuestionCounts :
                QuizAttemptViewPost(q, a, questions)
          \/ \E e \in 1..Len(enrollments), generation \in Generations :
                CompleteEnrollmentViewPost(e, a, generation)
          \/ \E e \in 1..Len(enrollments), late \in BOOLEAN :
                CancelEnrollmentViewPost(e, a, late)
    \/ \E e \in 1..Len(enrollments), actor \in ActorTypes, generation \in Generations :
          GenerateCertificateAPIViewPost(e, actor, generation)

SpecCourse == CourseInit /\ [][CourseNext]_vars

\* courses open for enrollment or not; nobody enrolled yet, or the first
\* applicant with an earlier enrollment in the first course, in any status
EnrollInit ==
    /\ jobPosts = DefaultJobs
    /\ applicantProfiles = DefaultApplicants
    /\ courses \in [Courses -> {[DefaultCourse EXCEPT !.is_active = b] : b \in BOOLEAN}]
    /\ lessons = [l \in Lessons |-> DefaultLesson(l)]
    /\ quizzes = [q \in Quizzes |-> DefaultQuiz(q)]
    /\ \/ enrollments = <<>>
       \/ \E st \in EnrollmentStatuses :
             enrollments = <<[NewEnrollment(1, 1) EXCEPT !.status = st]>>
    /\ lessonProgress = {}
    /\ quizAttempts = <<>>
    /\ certificates = <<>>
    /\ courseReq = [p \in Requests |-> IdleCourseRequest]
    /\ courseResp = IdleCourseRequest
    /\ MatchIdle
    /\ ApplyIdle
    /\ SignupIdle
    /\ RecommendIdle
    /\ WorkflowIdle

EnrollNext ==
    \/ \E p \in Requests :
          \/ \E view \in EnrollViews, c \in Courses, a \in Applicants :
                EnrollCourseCheck(p, view, c, a)
          \/ EnrollCourseCreate(p)
          \/ CourseResponseSent(p)
    \/ \E e \in 1..Len(enrollments), a \in Applicants, late \in BOOLEAN :
          CancelEnrollmentViewPost(e, a, late)

SpecEnroll == EnrollInit /\ [][EnrollNext]_vars

\* one applicant signed up earlier, is enrolled in the first course and has
\* completed its lessons; the course has no active quiz
SideEffectsInit ==
    /\ jobPosts = DefaultJobs
    /\ users = [i \in 1..1 |-> [email |-> [local |-> <<"a">>, domain |-> "x"],
                                username |-> <<"a">>, user_type |-> "applicant",
                                name |-> "n"]]
    /\ profiles = [i \in 1..1 |-> [user |-> i, location |-> <<>>]]
    /\ applicantProfiles = [i \in 1..1 |-> [DefaultApplicant EXCEPT !.user = i]]
    /\ companies = <<>>
    /\ signupReq = [p \in Signups |-> IdleSignup]
    /\ signalsConnected \in BOOLEAN
    /\ courses = [c \in Courses |-> DefaultCourse]
    /\ lessons = [l \in Lessons |-> DefaultLesson(l)]
    /\ quizzes = [q \in Quizzes |-> [DefaultQuiz(q) EXCEPT !.is_active = FALSE]]
    /\ enrollments = FirstEnrollment
    /\ lessonProgress = {[enrollment |-> 1, lesson |-> l, is_completed |-> TRUE] :
                            l \in ActiveLessons(1)}
    /\ quizAttempts = <<>>
    /\ certificates = <<>>
    /\ courseReq = [p \in Requests |-> IdleCourseRequest]
    /\ courseResp = IdleCourseRequest
    /\ MatchIdle
    /\ ApplyIdle
    /\ RecommendIdle
    /\ WorkflowIdle

SideEffectsNext ==
    \/ SignupNext
    \/ \E e \in 1..Len(enrollments), generation \in Generations :
          CompleteEnrollmentViewPost(e, 1, generation)

SpecSideEffects == SideEffectsInit /\ [][SideEffectsNext]_vars

\* an empty job table; the jobs come from the ORM, the admin add form and clones
WorkflowInit ==
    /\ jobPosts = <<>>
    /\ applicantProfiles = DefaultApplicants
    /\ MatchIdle
    /\ ApplyIdle
    /\ SignupIdle
    /\ RecommendIdle
    /\ CourseIdle
    /\ WorkflowIdle

WorkflowNext ==
    \/ \E given \in SUBSET {"status"}, status \in JobStatuses :
          JobPostCreation(Kwargs(given, [status |-> status]))
    \/ \E view \in {"CreateJobView", "companies.CreateJobView"} : CreateJobView(view)
    \/ \E j \in 1..MaxJobPosts :
          \/ EditJobViewFormValid(j)
          \/ CompaniesEditJobView(j)
          \/ CloneJobViewPost(j)
          \/ CloseJobViewPost(j)
          \/ ReopenJobViewPost(j)
          \/ ApproveJobViewPost(j)
          \/ RejectJobAdminViewPost(j)
          \/ \E status \in JobStatuses, is_active \in BOOLEAN :
                \E skills \in PostedSkills(status), reason \in Reasons(status) :
                   JobPostAdminFormChange(j, status, is_active, skills, reason)
    \/ \E queryset \in SUBSET (1..MaxJobPosts) :
          \/ ApproveJobs(queryset)
          \/ RejectJobs(queryset)
          \/ ActivateJobs(queryset)
          \/ DeactivateJobs(queryset)
    \/ \E status \in JobStatuses, is_active \in BOOLEAN :
          \E reason \in Reasons(status) : JobPostAdminFormAdd(status, is_active, reason)

SpecWorkflow == WorkflowInit /\ [][WorkflowNext]_vars

\* every job approved, active and before its deadline; nobody has applied
ApplicationsInit ==
    /\ jobPosts = [j \in Jobs |-> [DefaultJob EXCEPT !.status = "approved"]]
    /\ applicantProfiles = DefaultApplicants
    /\ MatchIdle
    /\ ApplyIdle
    /\ SignupIdle
    /\ RecommendIdle
    /\ CourseIdle
    /\ WorkflowIdle

\* the apply views take their requests one at a time here
ApplicationsNext ==
    \/ \E j \in Jobs, a \in Applicants :
          \/ ApplyJobViewPost(1, j, a)
          \/ ApplyJobAPIViewCheck(1, j, a)
    \/ ApplyJobAPIViewCreate(1)
    \/ ApplyResponseSent(1)
    \/ \E j \in Jobs : DeadlinePasses(j)
    \/ \E id \in Pairs \X (1..NumRequests) :
          \/ WithdrawApplicationViewPost(id)
          \/ \E new_status \in PostedStatuses : UpdateApplicationStatusViewPost(id, new_status)
          \/ ShortlistApplicationViewPost(id)
          \/ RejectApplicationViewPost(id)
    \/ \E ids \in SUBSET (Pairs \X (1..NumRequests)) :
          \/ \E action \in BulkActions : BulkApplicationActionViewPost(ids, action)
          \/ \E status \in {"reviewing", "shortlisted", "rejected"} :
                ApplicationAdminMarkAs(ids, status)

SpecApplications == ApplicationsInit /\ [][ApplicationsNext]_vars

(***************************************************************************)
(* Properties.                                                             *)
(***************************************************************************)

(* C1: in every reachable state, under any interleaving of apply requests  *)
(* through ApplyJobView and ApplyJobAPIView, a (job post, applicant) pair  *)
(* has at most one Application.                                            *)
C1_AtMostOneApplication == \A pr \in Pairs : Len(applications[pr]) <= 1

\* two requests raced: the API view passed its `already applied` query and its
\* insert was then refused
C1_RaceLost ==
    \E p \in Requests :
        /\ applyReq[p].view = "ApplyJobAPIView"
        /\ applyReq[p].response = "error"
        /\ \E pr \in Pairs : Len(applications[pr]) = 1

\* the job and the applicant of the last MatchingService call
RetJob == jobPosts[ret.job]
RetApplicant == applicantProfiles[ret.applicant]

(* C2 (as claimed): every calculate_match_score call leaves a MatchScore    *)
(* row of the pair whose total_score is 100 x (0.4 skills + 0.3 experience *)
(* + 0.2 location + 0.1 education), a value between 0 and 100.             *)
C2_TotalPersisted ==
    ret.fn = "calculate_match_score" =>
        LET expected ==
                Quantize2(PyAdd(PyAdd(PyAdd(
                    DecTimesInt(CalculateSkillsScore(RetJob, RetApplicant), 40),
                    DecTimesInt(CalculateExperienceScore(RetJob, RetApplicant), 30)),
                    DecTimesInt(CalculateLocationScore(RetJob, RetApplicant), 20)),
                    DecTimesInt(CalculateEducationScore(RetJob, RetApplicant), 10)))
        IN  /\ NumLeq(Zero, expected) /\ NumLeq(expected, Dec(100, 0, 0))
            /\ \E i \in RowsOf(matchScores, ret.job, ret.applicant) :
                  matchScores[i].total_score = expected

\* value = k / n to the 16 decimals a float quotient carries
IsRatio(value, k, n) ==
    /\ n > 0
    /\ NumLeq(DecTimesInt(value, n), Dec(k, 0, 0))
    /\ NumLess(Dec(k, 0, 0), PyAdd(DecTimesInt(value, n), Dec(0, 0, n)))

(* C3 (as claimed): for every job post and applicant the skills sub-score  *)
(* is |required /\ candidate| / |required|.                                *)
C3_SkillsRatioAlways ==
    ret.fn = "_calculate_skills_score" =>
        IsRatio(ret.value,
                Cardinality(RetJob.skills_required \cap RetApplicant.skills),
                Cardinality(RetJob.skills_required))

(* C3 (amended): when the job requires at least one skill the skills       *)
(* sub-score is |required /\ candidate| / |required|; when it requires     *)
(* none the sub-score is the neutral 0.5.                                  *)
C3_SkillsRatio ==
    ret.fn = "_calculate_skills_score" =>
        IF RetJob.skills_required = {}
        THEN ret.value = Dec(0, 50000000, 0)
        ELSE IsRatio(ret.value,
                     Cardinality(RetJob.skills_required \cap RetApplicant.skills),
                     Cardinality(RetJob.skills_required))

\* the applicant has some but not all of the required skills, and others besides
C3_PartialMatch ==
    /\ ret.fn = "_calculate_skills_score"
    /\ RetJob.skills_required \cap RetApplicant.skills # {}
    /\ RetJob.skills_required \ RetApplicant.skills # {}
    /\ NumLess(Zero, ret.value) /\ NumLess(ret.value, One)

\* how far the years lie outside the bracket (0 inside it)
Distance(range, years) ==
    IF years < range[1] THEN range[1] - years
    ELSE IF years > range[2] THEN years - range[2]
    ELSE 0

\* x and y differ by float rounding at most (10^-15)
Close(x, y) == NumLeq(DecSub(x, y), Dec(0, 0, 10)) /\ NumLeq(DecSub(y, x), Dec(0, 0, 10))

\* 1 - d * step, not below 0
LinearPenalty(d, step) == DecMax(Zero, DecSub(One, DecTimesInt(step, d)))

(* C4 (as claimed): the experience sub-score is 1.0 inside the bracket of  *)
(* the job's level (entry 0-2, mid 2-5, senior 5-100) and, for every       *)
(* applicant outside it, is penalized linearly in the distance to the      *)
(* bracket: the penalty at distance d is d times the penalty at distance 1 *)
(* on that side.                                                           *)
C4_LinearOutsideBracket ==
    ret.fn = "_calculate_experience_score" =>
        LET range == ExperienceRange(RetJob.experience_level)
            years == RetApplicant.years_experience
            d == Distance(range, years)
            nearest == IF years < range[1] THEN range[1] - 1 ELSE range[2] + 1
            step == DecSub(One, CalculateExperienceScore(
                        RetJob, [RetApplicant EXCEPT !.years_experience = nearest]))
        IN  IF d = 0 THEN ret.value = One
            ELSE Close(ret.value, LinearPenalty(d, step))

(* C4 (amended): the experience sub-score is 1.0 inside the bracket of the *)
(* job's level (entry 0-2, mid 2-5, senior 5-100, any other level 0-100);  *)
(* below the bracket it is 1 - 0.2 per missing year, not below 0; above    *)
(* the bracket it is 0.9 at every distance.                                *)
C4_ExperienceScore ==
    ret.fn = "_calculate_experience_score" =>
        LET level == RetJob.experience_level
            lo == IF level = "mid" THEN 2 ELSE IF level = "senior" THEN 5 ELSE 0
            hi == IF level = "entry" THEN 2 ELSE IF level = "mid" THEN 5 ELSE 100
            years == RetApplicant.years_experience
        IN  /\ (lo <= years /\ years <= hi) => ret.value = Dec(1, 0, 0)
            /\ years < lo => Close(ret.value, LinearPenalty(lo - years, Dec(0, 20000000, 0)))
            /\ years > hi => ret.value = Dec(0, 90000000, 0)

\* an applicant two or more years above the bracket still scores 0.9
C4_FarAboveBracket ==
    /\ ret.fn = "_calculate_experience_score"
    /\ RetApplicant.years_experience >= ExperienceRange(RetJob.experience_level)[2] + 2
    /\ ret.value = Dec(0, 90000000, 0)

\* a occurs in b, whatever the case of the letters
OccursIgnoringCase(a, b) ==
    \E i \in 1..(Len(b) + 1), k \in 0..Len(b) :
        /\ i + k - 1 <= Len(b)
        /\ k = Len(a)
        /\ \A m \in 1..k : LowerChar(b[i + m - 1]) = LowerChar(a[m])

(* C5 (as claimed): the location sub-score is 1.0 when the job location    *)
(* and the applicant location match by substring, case-insensitively, and  *)
(* 0.3 in every other case.                                                *)
C5_LocationOneOrThreeTenths ==
    ret.fn = "_calculate_location_score" =>
        IF \/ OccursIgnoringCase(RetJob.location, RetApplicant.location)
           \/ OccursIgnoringCase(RetApplicant.location, RetJob.location)
        THEN ret.value = Dec(1, 0, 0)
        ELSE ret.value = Dec(0, 30000000, 0)

(* C5 (amended): the location sub-score is the neutral 0.5 when the job    *)
(* location or the applicant location is empty; otherwise it is 1.0 when   *)
(* one location contains the other, case-insensitively, and 0.3 if not.    *)
C5_LocationScore ==
    ret.fn = "_calculate_location_score" =>
        IF RetJob.location = <<>> \/ RetApplicant.location = <<>>
        THEN ret.value = Dec(0, 50000000, 0)
        ELSE IF \/ OccursIgnoringCase(RetJob.location, RetApplicant.location)
                \/ OccursIgnoringCase(RetApplicant.location, RetJob.location)
        THEN ret.value = Dec(1, 0, 0)
        ELSE ret.value = Dec(0, 30000000, 0)

\* the two locations match only because case is ignored
C5_MatchByCaseOnly ==
    /\ ret.fn = "_calculate_location_score"
    /\ ret.value = Dec(1, 0, 0)
    /\ RetJob.location # <<>> /\ RetApplicant.location # <<>>
    /\ ~IsSubstring(RetJob.location, RetApplicant.location)
    /\ ~IsSubstring(RetApplicant.location, RetJob.location)

(* C6 (as claimed): after any sequence of calculate_match_score calls      *)
(* there is exactly one MatchScore row for each (job post, applicant) pair *)
(* that has been scored.                                                   *)
C6_OneRowPerScoredPair ==
    ret.fn = "calculate_match_score" =>
        Cardinality(RowsOf(matchScores, ret.job, ret.applicant)) = 1

(* C7 (as claimed): calculate_match_score completes without raising and    *)
(* returns the persisted MatchScore row whose job_post and applicant are   *)
(* the two arguments.                                                      *)
C7_ReturnsPersistedRow ==
    ret.fn = "calculate_match_score" =>
        /\ ret.outcome = "return"
        /\ ret.row.job_post = ret.job
        /\ ret.row.applicant = ret.applicant
        /\ \E i \in 1..Len(matchScores) : matchScores[i] = ret.row

(* C8: in every reachable state, under any interleaving of sign-ups, no    *)
(* two users have the same username.                                       *)
C8_UniqueUsernames ==
    \A i, k \in 1..Len(users) : i # k => users[i].username # users[k].username

\* two accounts share an email local part, and a sign-up that raced for the
\* same username was turned down by the user table
C8_SharedLocalPart ==
    /\ \E i, k \in 1..Len(users) : i # k /\ users[i].email.local = users[k].email.local
    /\ \E p \in Signups : signupReq[p].response = "error"

\* the creation of user u is over: no sign-up is still between user.save() and
\* the end of its role-profile steps for u
CreationFinished(u) ==
    \A p \in Signups : ~(signupReq[p].user = u /\ signupReq[p].pc \in {"company", "slug", "insert"})

RowsOfUser(rows, u) == {i \in 1..Len(rows) : rows[i].user = u}

(* C9: once the creation of a user is over, exactly one Profile exists for *)
(* it and exactly one role profile of its type: one ApplicantProfile and   *)
(* no Company for an applicant, one Company and no ApplicantProfile for a  *)
(* company.                                                                *)
C9_OneProfileAndOneRoleProfile ==
    \A u \in 1..Len(users) :
        CreationFinished(u) =>
            /\ Cardinality(RowsOfUser(profiles, u)) = 1
            /\ Cardinality(RowsOfUser(applicantProfiles, u)) =
                  (IF users[u].user_type = "applicant" THEN 1 ELSE 0)
            /\ Cardinality(RowsOfUser(companies, u)) =
                  (IF users[u].user_type = "company" THEN 1 ELSE 0)

(* C10: whenever the matching service raised while the recommendations     *)
(* were retrieved, the view's list is empty and the request ends with a    *)
(* normal response (status 200).                                           *)
C10_EmptyListAndNormalResponse ==
    \A p \in Requests :
        recResp[p].service = "raised" =>
            recResp[p].matches = <<>> /\ recResp[p].status = 200

(* C11: a failed side effect leaves the primary change in place and the     *)
(* request ends normally: a sign-up that saved its user is answered        *)
(* 'created' and the user row is there, whatever became of the profile     *)
(* hooks and of the verification email; a completion whose certificate     *)
(* failed is answered with the redirect and the enrollment is 'completed'. *)
C11_SideEffectFailuresSkipped ==
    /\ \A p \in Signups :
          signupReq[p].user # 0 =>
             /\ signupReq[p].user \in 1..Len(users)
             /\ signupReq[p].pc = "done" => signupReq[p].response = "created"
    /\ (courseResp.view = "CompleteEnrollmentView" /\ courseResp.certificate = "failed") =>
          /\ courseResp.response = "redirect"
          /\ enrollments[courseResp.enrollment].status = "completed"

\* a company sign-up ended without its Company and without its email, and a
\* completion ended without its certificate
C11_AllThreeFailed ==
    /\ \E p \in Signups :
          /\ signupReq[p].pc = "done"
          /\ signupReq[p].verification = "failed"
          /\ users[signupReq[p].user].user_type = "company"
          /\ RowsOfUser(companies, signupReq[p].user) = {}
    /\ courseResp.view = "CompleteEnrollmentView"
    /\ courseResp.certificate = "failed"
    /\ ~HasCertificate(certificates, courseResp.enrollment)


\* C12: a JobPost created without an explicit status starts in status 'draft'
\* with is_active true.
C12_CreatedAsActiveDraft ==
    (/\ jobResp.view = "JobPost.objects.create"
     /\ jobResp.response = "created"
     /\ jobResp.status = Absent) =>
        /\ jobPosts[jobResp.job].status = "draft"
        /\ jobPosts[jobResp.job].is_active

\* a row was created by a call that gave no status
C12_CreatedWithoutStatus ==
    /\ jobResp.view = "JobPost.objects.create"
    /\ jobResp.response = "created"
    /\ jobResp.status = Absent
    /\ jobResp.job \in DOMAIN jobPosts

\* the jobs whose status turns 'approved' in a step
BecomesApproved(j) == jobPosts[j].status # "approved" /\ jobPosts'[j].status = "approved"

\* C14 as stated: a job post's status becomes 'approved' only from 'pending';
\* no operation approves a job that is draft, rejected or closed.
C14_ApprovedOnlyFromPending ==
    [][\A j \in DOMAIN jobPosts : BecomesApproved(j) => jobPosts[j].status = "pending"]_vars

\* C14 as amended: a job post's status becomes 'approved' only from 'pending'
\* or, through the admin change form, from 'closed'; never from draft or rejected.
C14_ApprovedOnlyFromPendingOrClosed ==
    [][\A j \in DOMAIN jobPosts :
          BecomesApproved(j) =>
             \/ jobPosts[j].status = "pending"
             \/ jobPosts[j].status = "closed" /\ jobResp'.view = "JobPostAdminForm"]_vars

\* an administrator reopened a closed job through the change form
C14_ClosedJobReopened ==
    /\ jobResp.view = "JobPostAdminForm"
    /\ jobResp.response = "saved"
    /\ jobResp.was = "closed"
    /\ jobResp.job \in DOMAIN jobPosts
    /\ jobPosts[jobResp.job].status = "approved"

EditViews == {"EditJobView", "companies.EditJobView"}

\* C15: whenever a company edits an approved job post, the job goes back to
\* 'pending': an edit view that saved its form on a job that was approved
\* leaves the job pending.
C15_EditedApprovedJobIsPending ==
    (/\ jobResp.view \in EditViews
     /\ jobResp.was = "approved"
     /\ jobResp.response # "server error") => jobPosts[jobResp.job].status = "pending"

\* an approved job was edited and sent back to review
C15_ApprovedJobEdited ==
    /\ jobResp.view = "EditJobView"
    /\ jobResp.was = "approved"
    /\ jobResp.response = "resubmitted"
    /\ jobPosts[jobResp.job].status = "pending"


\* C13: once an application's status is 'withdrawn' it never changes again,
\* whatever operation runs: status update, shortlist, reject, bulk action,
\* admin action.
C13_WithdrawnIsFinal ==
    [][\A id \in ApplicationIds :
          StatusOfApplication(id) = "withdrawn" =>
             applications'[id[1]][id[2]].status = "withdrawn"]_vars

\* C16: an application is only created for a job post that is active,
\* 'approved' and before its deadline at the moment of creation.
C16_CreatedForEligibleJobOnly ==
    [][\A pr \in Pairs :
          Len(applications'[pr]) > Len(applications[pr]) =>
             /\ jobPosts[pr[1]].is_active
             /\ jobPosts[pr[1]].status = "approved"
             /\ ~jobPosts[pr[1]].is_expired]_vars


\* C17: there is at most one Enrollment per (course, applicant) however the
\* enroll requests interleave, and an enroll request for a pair that already
\* has its enrollment is answered 'already enrolled', never with an error.
C17_OneEnrollmentAndAlreadyEnrolled ==
    /\ \A i, j \in 1..Len(enrollments) :
          (enrollments[i].course = enrollments[j].course
           /\ enrollments[i].applicant = enrollments[j].applicant) => i = j
    /\ \A p \in Requests :
          (courseReq[p].pc = "done" /\ courseReq[p].view \in EnrollViews) =>
             courseReq[p].response \in {"not found", "already enrolled", "enrolled"}


\* every active lesson of the course is completed and every active quiz has a
\* passed attempt
AllLessonsAndQuizzesDone(e) ==
    LET c == enrollments[e].course
    IN  /\ ActiveLessons(c) \subseteq CompletedLessons(e)
        /\ \A q \in ActiveQuizzes(c) :
              \E i \in AttemptsOf(quizAttempts, e, q) : quizAttempts[i].is_passed

LiveEnrollments(c, a) ==
    {i \in 1..Len(enrollments) :
        /\ enrollments[i].course = c
        /\ enrollments[i].applicant = a
        /\ enrollments[i].status # "cancelled"}

\* C21: after an applicant cancels an enrollment they can enroll in the same
\* course again: an enroll request is never turned down as 'already enrolled'
\* when the applicant's enrollment in that course is cancelled.
C21_ReenrollAfterCancel ==
    [][\A p \in Requests :
          (/\ courseReq[p].pc = "idle"
           /\ courseReq'[p].pc = "done"
           /\ courseReq'[p].response = "already enrolled")
             => LiveEnrollments(courseReq'[p].course, courseReq'[p].applicant) # {}]_vars


outsideServe == <<applyVars, signupVars, recResp, courseVars>>

\* MatchScore.objects.get(applicant=, job_post=) when the pair has a row
StoredRow(rows, j, a) ==
    LET found == RowsOf(rows, j, a)
    IN  rows[CHOOSE k \in found : \A m \in found : k <= m]

\* what calculate_match_score makes of the pair's data as it is now
FreshScore(j, a) == CalculateMatchScore(matchScores, j, a, jobPosts[j], applicantProfiles[a])

\* try: MatchScore.objects.get(...)  except DoesNotExist: calculate_match_score(...)
GetOrCalculate(view, j, a) ==
    IF RowsOf(matchScores, j, a) # {}
    THEN LET row == StoredRow(matchScores, j, a)
         IN  /\ ret' = [fn |-> view, job |-> j, applicant |-> a, outcome |-> "return",
                        value |-> row.total_score, row |-> row]
             /\ UNCHANGED <<outsideMatch, matchScores>>
    ELSE LET r == FreshScore(j, a)
         IN  /\ matchScores' = r.rows
             /\ ret' = [fn |-> view, job |-> j, applicant |-> a, outcome |-> r.outcome,
                        value |-> r.row.total_score, row |-> r.row]
             /\ UNCHANGED outsideMatch

JobMatchDetailViewGet(j, a) == GetOrCalculate("JobMatchDetailView", j, a)

MatchScoreAPIViewGet(j, a) == GetOrCalculate("MatchScoreAPIView", j, a)

\* get_cached_match_score(job_id, applicant_id): the cached object when the key is
\* there, else the stored row, cached for an hour, else None
GetCachedMatchScore(j, a) ==
    LET hit == cache[<<j, a>>]
        answer(outcome, row) ==
            [fn |-> "get_cached_match_score", job |-> j, applicant |-> a,
             outcome |-> outcome, value |-> row.total_score, row |-> row]
    IN  /\ IF hit # NoRow
           THEN /\ ret' = answer("return", hit)
                /\ UNCHANGED cache
           ELSE IF RowsOf(matchScores, j, a) # {}
           THEN /\ cache' = [cache EXCEPT ![<<j, a>>] = StoredRow(matchScores, j, a)]
                /\ ret' = answer("return", StoredRow(matchScores, j, a))
           ELSE /\ ret' = answer("None", NoRow)
                /\ UNCHANGED cache
        /\ UNCHANGED <<dataVars, matchScores, jobResp, outsideServe>>

\* the hour of cache.set(cache_key, match_score, 3600) is over
CacheTimeout(j, a) ==
    /\ cache[<<j, a>>] # NoRow
    /\ cache' = [cache EXCEPT ![<<j, a>>] = NoRow]
    /\ UNCHANGED <<dataVars, matchScores, ret, jobResp, outsideServe>>

\* RecalculateMatchAPIView.post with both ids
RecalculateMatchAPIViewPost(j, a) == CallCalculateMatchScore(j, a)

\* ApplicantProfileEditView: the form saves years_experience, then the profile
\* score (a field the rows here do not hold) is recomputed
ApplicantProfileEditViewFormValid(a, years_experience) ==
    /\ applicantProfiles' = [applicantProfiles EXCEPT ![a].years_experience = years_experience]
    /\ UNCHANGED <<jobPosts, matchVars, jobResp, outsideServe>>

\* AddSkillView.post: ApplicantSkill.objects.get_or_create(applicant=, skill=)
AddSkillViewPost(a, skill) ==
    /\ applicantProfiles' = [applicantProfiles EXCEPT ![a].skills = @ \cup {skill}]
    /\ UNCHANGED <<jobPosts, matchVars, jobResp, outsideServe>>

\* DeleteSkillView: the applicant's ApplicantSkill row is deleted
DeleteSkillViewPost(a, skill) ==
    /\ skill \in applicantProfiles[a].skills
    /\ applicantProfiles' = [applicantProfiles EXCEPT ![a].skills = @ \ {skill}]
    /\ UNCHANGED <<jobPosts, matchVars, jobResp, outsideServe>>

\* jobs.EditJobView with experience_level and skills_required rewritten: an
\* approved job goes back to 'pending', then the form is saved
EditJobViewPost(j, experience_level, skills_required) ==
    /\ j \in JobIds
    /\ jobPosts' = [jobPosts EXCEPT ![j].status = IF @ = "approved" THEN "pending" ELSE @,
                                    ![j].experience_level = experience_level,
                                    ![j].skills_required = skills_required]
    /\ jobResp' = JobAnswer("EditJobView", j,
                            IF jobPosts[j].status = "approved" THEN "resubmitted" ELSE "updated",
                            jobPosts[j].status, Absent)
    /\ UNCHANGED <<applicantProfiles, matchVars, outsideServe>>

\* the years an applicant posts in the profile form
PostedYears == {0, MaxYears}

\* the levels a company posts in the job form
PostedLevels == {"entry", "senior"}

\* the sub-scores of a MatchScore row as calculate_match_score stores them
StoredSubScores(job, applicant) ==
    [skills_score |-> Quantize2(PyMul(CalculateSkillsScore(job, applicant), Hundred)),
     experience_score |-> Quantize2(PyMul(CalculateExperienceScore(job, applicant), Hundred)),
     location_score |-> Quantize2(PyMul(CalculateLocationScore(job, applicant), Hundred)),
     education_score |-> Quantize2(PyMul(CalculateEducationScore(job, applicant), Hundred))]

SubScoresOf(row) ==
    [skills_score |-> row.skills_score, experience_score |-> row.experience_score,
     location_score |-> row.location_score, education_score |-> row.education_score]

\* a row of the pair whose sub-scores are those of the pair's data, and whose
\* total is their sum under the weights 40, 30, 20 and 10 percent
RowInTable(j, a, job, applicant) ==
    LET sub == StoredSubScores(job, applicant)
    IN  [job_post |-> j, applicant |-> a,
         skills_score |-> sub.skills_score, experience_score |-> sub.experience_score,
         location_score |-> sub.location_score, education_score |-> sub.education_score,
         total_score |->
             LET sum == PyAdd(PyAdd(DecTimesInt(sub.skills_score, 40),
                                    DecTimesInt(sub.experience_score, 30)),
                              PyAdd(DecTimesInt(sub.location_score, 20),
                                    DecTimesInt(sub.education_score, 10)))
                 cents == sum.int * 100 + (sum.hi \div (Limb \div 100))
             IN  Quantize2(Dec(cents \div 10000, (cents % 10000) * (Limb \div 10000), 0))]

\* the table starts empty, or with the row of one pair, written for the data
\* the pair has at the start
ServeInit ==
    /\ jobPosts = DefaultJobs
    /\ applicantProfiles = DefaultApplicants
    /\ \/ matchScores = <<>>
       \/ \E j \in Jobs, a \in Applicants :
             matchScores = <<RowInTable(j, a, DefaultJobs[j], DefaultApplicants[a])>>
    /\ ret = NoRet
    /\ cache = [pr \in Pairs |-> NoRow]
    /\ ApplyIdle
    /\ SignupIdle
    /\ RecommendIdle
    /\ CourseIdle
    /\ WorkflowIdle

ServeNext ==
    \/ \E j \in Jobs, a \in Applicants :
          \/ JobMatchDetailViewGet(j, a)
          \/ MatchScoreAPIViewGet(j, a)
          \/ GetCachedMatchScore(j, a)
          \/ CacheTimeout(j, a)
          \/ RecalculateMatchAPIViewPost(j, a)
    \/ \E a \in Applicants, years_experience \in PostedYears :
          ApplicantProfileEditViewFormValid(a, years_experience)
    \/ \E a \in Applicants, skill \in Skills : AddSkillViewPost(a, skill)
    \/ \E a \in Applicants, skill \in Skills : DeleteSkillViewPost(a, skill)
    \/ \E j \in Jobs, experience_level \in PostedLevels, skills_required \in SUBSET Skills :
          EditJobViewPost(j, experience_level, skills_required)

SpecServe == ServeInit /\ [][ServeNext]_vars

ServingFunctions == {"JobMatchDetailView", "MatchScoreAPIView", "get_cached_match_score"}

SpecCourseFair == CourseInit /\ [][CourseNext]_vars /\ WF_vars(CourseNext)

EnrollmentIds == 1..(NumCourses * NumApplicants)

\* C23: if certificate generation fails when a course is completed, the
\* certificate is still processed later: every enrollment that reaches
\* 'completed' eventually has a certificate.
C23_CompletedLeadsToCertificate ==
    \A e \in EnrollmentIds :
        (e \in 1..Len(enrollments) /\ enrollments[e].status = "completed")
            ~> HasCertificate(certificates, e)

====
